---- MODULE Spec2Model ----
(***************************************************************************)
(* Model of the intelligent commenter (src/unnamed/part_001) and of the    *)
(* OAuth manager it posts through (src/unnamed/part_000).                  *)
(*                                                                         *)
(* One process run is main() -> runIntelligentCommenter(); the table       *)
(* bot_comments lives in the database and survives from run to run.  The   *)
(* code is a single thread of awaited calls, so every action below is one  *)
(* resumption of that thread: the answer of the awaited external call      *)
(* (drawn with \E) and all the synchronous code that follows it up to the  *)
(* next await.                                                             *)
(***************************************************************************)
EXTENDS Integers, Sequences, FiniteSets, TLC

\* ------------------------------------------------------------------ bounds
\* Number of process runs explored.
MaxRuns == 2
\* Longest listing page returned by the hot-posts fetch.
MaxPage == 3
\* Longest completion text returned by the LLM (in characters).
MaxTextLen == 4
\* Longest listing page of a crawl batch.
MaxBatchPosts == 1

\* Posts of the listing crawlReddit fetches.
MaxRedditPosts == 2
\* Answers of Reddit to one crawl that are a non-empty page or a failure
\* (every other listing answer is an empty page).
MaxCrawlEvents == 3
\* Most rows the posts table holds for one reddit_id.
MaxRows == 2
\* Most entries of a gallery's media_metadata and of its item list.
MaxMedia == 2
\* Clock advances and tokens granted in the life of one OAuth manager.
MaxTicks == 4
MaxTokens == 3

\* ----------------------------------------------------- configuration values
\* config/commenter-config.json is read at start-up (loadConfig); the values
\* below are small stand-ins for the fields of CommenterConfig.
maxCommentsPerRun == 2
minCommentCount == 2
maxPostAgeHours == 1
minCommentLength == 2
maxCommentLength == 3
delayBetweenComments == 1
blacklistedKeywords == { <<"a", "B">> }

\* Literals of the code.
MinUsableComments == 3
MinBodyLength == 10

\* ------------------------------------------------------------ text helpers
\* Characters of a text; a text is a sequence of characters.
Alphabet == { "a", "b", "B", " " }

Texts == UNION { [1..n -> Alphabet] : n \in 0..MaxTextLen }

\* String.prototype.toLowerCase, character by character.
LowerChar(c) == IF c = "B" THEN "b" ELSE c

toLowerCase(s) == [i \in 1..Len(s) |-> LowerChar(s[i])]

\* String.prototype.includes: needle occurs in hay as a contiguous run.
includes(hay, needle) ==
  \E i \in 0..(Len(hay) - Len(needle)) :
    \A j \in 1..Len(needle) : hay[i + j] = needle[j]

\* String.prototype.substring(0, n).
substring(s, n) == IF Len(s) <= n THEN s ELSE SubSeq(s, 1, n)

\* String.prototype.trim: drop leading and trailing blanks.
RECURSIVE trimStart(_)
trimStart(s) ==
  IF s # <<>> /\ Head(s) = " " THEN trimStart(Tail(s)) ELSE s

RECURSIVE trimEnd(_)
trimEnd(s) ==
  IF s # <<>> /\ s[Len(s)] = " " THEN trimEnd(SubSeq(s, 1, Len(s) - 1)) ELSE s

trim(s) == trimEnd(trimStart(s))

\* The absent comment of generateComment (JavaScript null).
null == << "null" >>

\* ------------------------------------------------- generateComment (362-384)
\* The blacklist test of generateComment on the trimmed text.
hasBlacklisted(comment) ==
  \E keyword \in blacklistedKeywords :
    includes(toLowerCase(comment), toLowerCase(keyword))

\* The validation of the trimmed completion text, in the order of the code:
\* too short -> null; too long -> truncated and returned at once; blacklisted
\* -> null; otherwise the text.
validateCommentNoTruncation(comment) ==
  IF Len(comment) < minCommentLength THEN null
  ELSE IF hasBlacklisted(comment) THEN null
  ELSE comment

validateComment(comment) ==
  IF Len(comment) < minCommentLength THEN null
  ELSE IF Len(comment) > maxCommentLength
       THEN substring(comment, maxCommentLength)
  ELSE IF hasBlacklisted(comment) THEN null
  ELSE comment

\* generateComment on the answer of the completion endpoint: a non-OK status
\* (or a timeout) throws inside the try and yields null; otherwise the content
\* is trimmed and validated.
generateComment(responseOk, content) ==
  IF ~responseOk THEN null ELSE validateComment(trim(content))


\* ------------------------------------------------------------------- posts
PostIds == { "p1", "p2" }

\* A URL is a sequence of pieces; url.includes(x) asks for the piece x.
Range(s) == { s[i] : i \in 1..Len(s) }

LowerPiece(t) ==
  IF t = ".PNG" THEN ".png" ELSE IF t = ".JPG" THEN ".jpg" ELSE t

imageExtensions == { ".jpg", ".jpeg", ".png", ".gif", ".webp" }
imageDomains == { "i.redd.it", "i.imgur.com", "preview.redd.it" }

isImageUrl(url) ==
  LET hasImageExtension ==
        \E ext \in imageExtensions : ext \in { LowerPiece(t) : t \in Range(url) }
      hasImageDomain == \E domain \in imageDomains : domain \in Range(url)
  IN  hasImageExtension \/ hasImageDomain \/ "reddit.com/gallery/" \in Range(url)

\* The posts a listing page is made of.  The first two pass the first three
\* filter stages (the second only while it is young enough); the others fail
\* one stage each.
PostDirect ==
  [id |-> "p1", num_comments |-> 2, created_utc |-> 3601, is_video |-> FALSE,
   url |-> <<"https://", "i.redd.it", "/x", ".jpg">>]
PostGallery ==
  [id |-> "p2", num_comments |-> 3, created_utc |-> 3600, is_video |-> FALSE,
   url |-> <<"https://", "www.", "reddit.com/gallery/", "abc">>]
PostFewComments == [PostDirect EXCEPT !.num_comments = 1]
PostOld ==
  [PostGallery EXCEPT !.created_utc = 0,
                      !.url = <<"https://", "example.com", "/x", ".PNG">>]
PostVideo == [PostGallery EXCEPT !.is_video = TRUE]
PostNoImage == [PostDirect EXCEPT !.url = <<"https://", "example.com", "/page">>]

PostPool ==
  { PostDirect, PostGallery, PostFewComments, PostOld, PostVideo, PostNoImage }

Pages == UNION { [1..n -> PostPool] : n \in 0..MaxPage }

\* Values of Math.floor(Date.now() / 1000) at filter time.
Nows == { 7200, 7201 }

\* Array.prototype.slice(0, n).
slice(s, n) == IF Len(s) <= n THEN s ELSE SubSeq(s, 1, n)

\* filterCandidatePosts, stages (a)-(c): comment count, age, image content.
filterStagesNoCommentCount(posts, now) ==
  LET maxAge == maxPostAgeHours * 3600
      recent(post) == (now - post.created_utc) <= maxAge
      image(post) == ~post.is_video /\ isImageUrl(post.url)
  IN  SelectSeq(SelectSeq(posts, recent), image)

filterStages(posts, now) ==
  LET enough(post) == post.num_comments >= minCommentCount
      maxAge == maxPostAgeHours * 3600
      recent(post) == (now - post.created_utc) <= maxAge
      image(post) == ~post.is_video /\ isImageUrl(post.url)
      withEnoughComments == SelectSeq(posts, enough)
      recentPosts == SelectSeq(withEnoughComments, recent)
  IN  SelectSeq(recentPosts, image)

\* The value filterCandidatePosts returns from the list of not-commented posts.
filterReturnUncapped(notCommentedPosts) == notCommentedPosts

filterReturn(notCommentedPosts) == slice(notCommentedPosts, maxCommentsPerRun)

\* ------------------------------------------------- storage: bot_comments
\* Answers of the single-row lookup (.single()): the row; PGRST116, which the
\* query reports when it matches no row or more than one; another query
\* error; an exception.
LookupFound == [data |-> TRUE, error |-> "none"]
LookupNotFound == [data |-> FALSE, error |-> "PGRST116"]
LookupFailed == [data |-> FALSE, error |-> "500"]
LookupThrown == [data |-> FALSE, error |-> "throw"]

checkAlreadyCommentedAlwaysFalse(ans) == FALSE

checkAlreadyCommentedAlwaysTrue(ans) == TRUE

checkAlreadyCommentedNegated(ans) ==
  IF ans.error = "throw" THEN FALSE
  ELSE IF ans.error # "none" /\ ans.error # "PGRST116" THEN FALSE
  ELSE ~ans.data

checkAlreadyCommented(ans) ==
  IF ans.error = "throw" THEN FALSE
  ELSE IF ans.error # "none" /\ ans.error # "PGRST116" THEN FALSE
  ELSE ans.data

\* ------------------------------------------------- comments of a post
\* A comment body: its text class and its length.
BodyEmpty == [text |-> "", length |-> 0]
BodyDeleted == [text |-> "[deleted]", length |-> 9]
BodyShort == [text |-> "short", length |-> 10]
BodyLong == [text |-> "long", length |-> 11]

usableCommentKeepsShort(body) ==
  body.length > 0 /\ body.text # "[deleted]"

\* The filter of fetchPostComments (line 272).
usableComment(body) ==
  body.length > 0 /\ body.text # "[deleted]" /\ body.length > MinBodyLength

RawCommentLists ==
  { <<>>,
    <<BodyLong, BodyLong>>,
    <<BodyLong, BodyLong, BodyLong>>,
    <<BodyLong, BodyDeleted, BodyLong, BodyShort, BodyEmpty>>,
    <<BodyLong, BodyDeleted, BodyLong, BodyShort, BodyLong>> }

usableComments(raw) == SelectSeq(raw, usableComment)

\* ------------------------------------- RedditOAuthManager.postComment
\* token: getAccessToken succeeded (the request is sent only then); threw: the
\* request or the JSON parsing threw; ok: response.ok; errors: json.errors is
\* non-empty; things: json.data.things is present; success: success === true.
PostAnswer(token, threw, ok, errors, things, success) ==
  [token |-> token, threw |-> threw, ok |-> ok, errors |-> errors,
   things |-> things, success |-> success]

\* No token; a thrown request; a non-OK status; an error list beside a
\* payload; a payload; the success flag alone; none of them.
PostAnswers ==
  { PostAnswer(FALSE, FALSE, FALSE, FALSE, FALSE, FALSE),
    PostAnswer(TRUE, TRUE, FALSE, FALSE, FALSE, FALSE),
    PostAnswer(TRUE, FALSE, FALSE, FALSE, FALSE, FALSE),
    PostAnswer(TRUE, FALSE, TRUE, TRUE, TRUE, FALSE),
    PostAnswer(TRUE, FALSE, TRUE, FALSE, TRUE, FALSE),
    PostAnswer(TRUE, FALSE, TRUE, FALSE, FALSE, TRUE),
    PostAnswer(TRUE, FALSE, TRUE, FALSE, FALSE, FALSE) }

oauthPostCommentIgnoresErrors(ans) ==
  IF ~ans.token \/ ans.threw THEN FALSE
  ELSE IF ~ans.ok THEN FALSE
  ELSE IF ans.things THEN TRUE
  ELSE IF ans.success THEN TRUE
  ELSE FALSE

oauthPostComment(ans) ==
  IF ~ans.token \/ ans.threw THEN FALSE
  ELSE IF ~ans.ok THEN FALSE
  ELSE IF ans.errors THEN FALSE
  ELSE IF ans.things THEN TRUE
  ELSE IF ans.success THEN TRUE
  ELSE FALSE

\* What the comment endpoint can answer, field by field.  token: the OAuth
\* manager had a token for the request; threw: the request itself threw
\* (time-out, network); ok: response.ok; body: the body parsed to an object,
\* to null, or was not JSON; hasJson, hasData: result.json and
\* result.json.data are objects; errors, things: result.json.errors and
\* result.json.data.things are absent, an empty list or a list with
\* elements; success: result.success is absent, true or false.
PostResponse(token, threw, ok, body, hasJson, errors, hasData, things, success) ==
  [token |-> token, threw |-> threw, ok |-> ok, body |-> body,
   hasJson |-> hasJson, errors |-> errors, hasData |-> hasData,
   things |-> things, success |-> success]

ListShapes == { "absent", "empty", "some" }

PostResponses ==
  { PostResponse(t, x, o, b, j, e, d, th, su) :
      t \in BOOLEAN, x \in BOOLEAN, o \in BOOLEAN,
      b \in { "object", "null", "invalid" }, j \in BOOLEAN,
      e \in ListShapes, d \in BOOLEAN, th \in ListShapes,
      su \in { "absent", "true", "false" } }

\* What postComment's tests read in a response (part_000 129-151): a body
\* that is not JSON makes response.json() throw and a null body makes
\* result.json throw, both inside the try; the error test needs a list with
\* elements; the payload test needs things to be truthy, which an empty list
\* is; the flag test needs success === true.
PostAnswerOf(r) ==
  PostAnswer(r.token,
             r.threw \/ (r.ok /\ r.body # "object"),
             r.ok,
             r.hasJson /\ r.errors = "some",
             r.hasJson /\ r.hasData /\ r.things # "absent",
             r.success = "true")

\* A call of RedditOAuthManager.postComment with the response it will get;
\* posted: what it returned.
ReplyCalled(r) == [pc |-> "called", response |-> r, posted |-> FALSE]

\* ------------------------------------------------- processPost, run loop
\* Whether processPost goes on to recordComment after postComment returned
\* `posted` (lines 453-466).
recordAfterPostIgnoresPosted(posted, dry) == ~dry

recordAfterPostIgnoresDryRun(posted, dry) == posted

recordAfterPost(posted, dry) == posted /\ ~dry

\* What processPost returns for each way a candidate can end: every failure
\* returns false, and so does the catch around the whole body.
processPost(event) == IF event = "ok" THEN "true" ELSE "false"

\* The counters of runIntelligentCommenter after processPost ended with
\* `outcome` ("true", "false" or "throw"), lines 515-530.
tallyNeverCommented(res, outcome, dry) ==
  IF outcome = "throw" THEN [res EXCEPT !.errors = @ + 1]
  ELSE [res EXCEPT !.apiCallsUsed = @ + 2, !.skipped = @ + 1]

tally(res, outcome, dry) ==
  IF outcome = "throw" THEN [res EXCEPT !.errors = @ + 1]
  ELSE IF outcome = "true"
       THEN [res EXCEPT !.apiCallsUsed = @ + 2 + (IF dry THEN 0 ELSE 1),
                        !.commented = @ + 1]
  ELSE [res EXCEPT !.apiCallsUsed = @ + 2, !.skipped = @ + 1]

\* Where the run goes after a candidate ended: the for loop goes on.
nextCandidateAbortsOnFailure(outcome) ==
  IF outcome = "true" THEN "loop" ELSE "thrown"

nextCandidate(outcome) == "loop"

\* Where the run goes after the hot-posts fetch failed: the error is rethrown.
afterFetchFailureSwallowed == "returned"

afterFetchFailure == "thrown"

\* ------------------------------------------------- crawlers: image resolver
\* Posts as the crawlers read them (crawler.ts, comprehensive-crawler.ts).
\* url: pieces, <<>> for a missing or empty url; media_metadata: the entries
\* of the mapping in key order (Object.keys), u = <<>> when the entry has no
\* s.u; gallery_items: the media ids of gallery_data.items, <<>> when the
\* list is missing or empty.
NoUrl == <<>>

CrawlPost(id, url, is_video, is_gallery, has_media_metadata, media_metadata, gallery_items) ==
  [id |-> id, url |-> url, is_video |-> is_video, is_gallery |-> is_gallery,
   has_media_metadata |-> has_media_metadata,
   media_metadata |-> media_metadata, gallery_items |-> gallery_items]

\* isImageUrl of the crawlers: extension or image domain (no gallery test).
crawlerIsImageUrl(url) ==
  LET hasImageExtension ==
        \E ext \in imageExtensions : ext \in { LowerPiece(t) : t \in Range(url) }
      hasImageDomain == \E domain \in imageDomains : domain \in Range(url)
  IN  hasImageExtension \/ hasImageDomain

isGalleryUrl(url) == "reddit.com/gallery/" \in Range(url)

isImgurAlbumUrl(url) ==
  "imgur.com/a/" \in Range(url) \/ "imgur.com/gallery/" \in Range(url)

\* Pieces made of letters and digits only.
AlnumPieces == { "abc", "xyz" }

\* url.match(/imgur\.com\/(?:a|gallery)\/([a-zA-Z0-9]+)/): the positions of
\* an album marker followed by an alphanumeric piece.
albumMatch(url) ==
  { i \in 1..(Len(url) - 1) :
      /\ url[i] \in { "imgur.com/a/", "imgur.com/gallery/" }
      /\ url[i + 1] \in AlnumPieces }

possibleUrlsPngFirst(albumId) ==
  << << "https://", "i.imgur.com", "/", albumId, ".png" >>,
     << "https://", "i.imgur.com", "/", albumId, ".jpg" >>,
     << "https://", "i.imgur.com", "/", albumId, ".gif" >> >>

\* The three guesses for an album id, in the order of the code.
possibleUrls(albumId) ==
  << << "https://", "i.imgur.com", "/", albumId, ".jpg" >>,
     << "https://", "i.imgur.com", "/", albumId, ".png" >>,
     << "https://", "i.imgur.com", "/", albumId, ".gif" >> >>

\* Answers of a HEAD probe: OK with an image content type; OK with another
\* content type; a non-OK status; a thrown request (time-out included).
ProbeAnswers == { "image", "notImage", "notOk", "throw" }

probeOk(ans) == ans = "image"

\* extractImageFromImgurAlbum: answers[i] is what the i-th guess would answer
\* if probed.  Returns the URL found (NoUrl for null) and the URLs probed.
extractImageFromImgurAlbum(url, answers) ==
  IF albumMatch(url) = {}
    THEN [url |-> NoUrl, probed |-> <<>>]
    ELSE LET first == CHOOSE i \in albumMatch(url) :
                        \A j \in albumMatch(url) : i <= j
             guesses == possibleUrls(url[first + 1])
             hits == { i \in 1..Len(guesses) : probeOk(answers[i]) }
         IN  IF hits = {}
               THEN [url |-> NoUrl, probed |-> guesses]
               ELSE LET hit == CHOOSE i \in hits : \A j \in hits : i <= j
                    IN  [url |-> guesses[hit], probed |-> SubSeq(guesses, 1, hit)]

\* String.prototype.replace(/&amp;/g, '&') on the pieces of a URL.
decodeAmp(u) == [i \in 1..Len(u) |-> IF u[i] = "&amp;" THEN "&" ELSE u[i]]

\* The s.u of the entry of media_metadata named media_id; NoUrl when the
\* mapping has no such entry or the entry has no s.u.
mediaUrl(post, media_id) ==
  LET at == { i \in 1..Len(post.media_metadata) :
                post.media_metadata[i].media_id = media_id }
  IN  IF at = {} THEN NoUrl
      ELSE post.media_metadata[CHOOSE i \in at : TRUE].u

\* The fallback of extractFirstImageFromGallery: the first key of
\* media_metadata.
galleryFallback(post) ==
  IF Len(post.media_metadata) = 0 THEN NoUrl
  ELSE IF post.media_metadata[1].u # NoUrl
       THEN decodeAmp(post.media_metadata[1].u)
  ELSE NoUrl

\* extractFirstImageFromGallery (NoUrl for null): the item named by the first
\* entry of gallery_data.items when it has a URL; in every other case the
\* code goes on to the fallback.
extractFirstImageFromGallery(post) ==
  IF ~post.is_gallery \/ ~post.has_media_metadata THEN NoUrl
  ELSE IF Len(post.gallery_items) > 0
            /\ mediaUrl(post, post.gallery_items[1]) # NoUrl
       THEN decodeAmp(mediaUrl(post, post.gallery_items[1]))
  ELSE galleryFallback(post)

\* checkImageAvailability (crawler.ts 168-184) on the answer of its probe.
checkImageAvailabilityAlwaysTrue(ans) == TRUE

checkImageAvailability(ans) == probeOk(ans)

\* The result of validateImage, with the URLs it probed on the way.
ImageValidation(isValid, url, reason, probed) ==
  [isValid |-> isValid, url |-> url, reason |-> reason, probed |-> probed]

\* The tests validateImage starts with (both copies): the reason of the
\* rejection, "none" when the post goes on to the URL classification.
earlyRejectionIgnoresVideo(post) ==
  IF post.url = NoUrl THEN "No URL found" ELSE "none"

earlyRejection(post) ==
  IF post.url = NoUrl THEN "No URL found"
  ELSE IF post.is_video THEN "Post is a video"
  ELSE "none"

\* validateImage of crawler.ts: resolve the URL, then probe its availability.
validateImage(post, albumAnswers, availability) ==
  IF earlyRejection(post) # "none"
    THEN ImageValidation(FALSE, post.url, earlyRejection(post), <<>>)
  ELSE LET album == extractImageFromImgurAlbum(post.url, albumAnswers)
           gallery == extractFirstImageFromGallery(post)
           direct == crawlerIsImageUrl(post.url)
           isGallery == ~direct /\ isGalleryUrl(post.url)
           isAlbum == ~direct /\ ~isGallery /\ isImgurAlbumUrl(post.url)
           imageUrl == IF direct THEN post.url
                       ELSE IF isGallery THEN gallery
                       ELSE album.url
           probed == IF isAlbum THEN album.probed ELSE <<>>
       IN  IF ~direct /\ ~isGallery /\ ~isAlbum
             THEN ImageValidation(FALSE, post.url,
                                  "URL is not an image or gallery", <<>>)
           ELSE IF isGallery /\ gallery = NoUrl
             THEN ImageValidation(FALSE, post.url,
                                  "Could not extract image from gallery", <<>>)
           ELSE IF isAlbum /\ album.url = NoUrl
             THEN ImageValidation(FALSE, post.url,
                                  "Could not extract image from Imgur album",
                                  probed)
           ELSE IF ~checkImageAvailability(availability)
             THEN ImageValidation(FALSE, imageUrl,
                                  "Image URL returns 404 or is unavailable",
                                  Append(probed, imageUrl))
           ELSE ImageValidation(TRUE, imageUrl, "none", Append(probed, imageUrl))

validateImageComprehensiveWithoutAlbums(post, albumAnswers) ==
  IF earlyRejection(post) # "none"
    THEN ImageValidation(FALSE, post.url, earlyRejection(post), <<>>)
  ELSE IF crawlerIsImageUrl(post.url)
    THEN ImageValidation(TRUE, post.url, "none", <<>>)
  ELSE IF isGalleryUrl(post.url)
    THEN LET firstImage == extractFirstImageFromGallery(post) IN
         IF firstImage # NoUrl
           THEN ImageValidation(TRUE, firstImage, "none", <<>>)
           ELSE ImageValidation(FALSE, post.url,
                                "Could not extract image from gallery", <<>>)
  ELSE ImageValidation(FALSE, post.url, "URL is not an image or gallery", <<>>)

\* validateImage of comprehensive-crawler.ts: no availability probe.
validateImageComprehensive(post, albumAnswers) ==
  IF earlyRejection(post) # "none"
    THEN ImageValidation(FALSE, post.url, earlyRejection(post), <<>>)
  ELSE IF crawlerIsImageUrl(post.url)
    THEN ImageValidation(TRUE, post.url, "none", <<>>)
  ELSE IF isGalleryUrl(post.url)
    THEN LET firstImage == extractFirstImageFromGallery(post) IN
         IF firstImage # NoUrl
           THEN ImageValidation(TRUE, firstImage, "none", <<>>)
           ELSE ImageValidation(FALSE, post.url,
                                "Could not extract image from gallery", <<>>)
  ELSE IF isImgurAlbumUrl(post.url)
    THEN LET extracted == extractImageFromImgurAlbum(post.url, albumAnswers) IN
         IF extracted.url # NoUrl
           THEN ImageValidation(TRUE, extracted.url, "none", extracted.probed)
           ELSE ImageValidation(FALSE, post.url,
                                "Could not extract image from Imgur album",
                                extracted.probed)
  ELSE ImageValidation(FALSE, post.url, "URL is not an image or gallery", <<>>)

\* checkPostExists on the answer of the single-row lookup in posts; the
\* copies of crawler.ts (34-52) and comprehensive-crawler.ts (48-65) are the
\* same code.
checkPostExistsTrueOnError(ans) ==
  IF ans.error = "throw" THEN FALSE
  ELSE IF ans.error # "none" /\ ans.error # "PGRST116" THEN TRUE
  ELSE ans.data

checkPostExists(ans) ==
  IF ans.error = "throw" THEN FALSE
  ELSE IF ans.error # "none" /\ ans.error # "PGRST116" THEN FALSE
  ELSE ans.data

checkPostExistsComprehensiveAlwaysFalse(ans) == FALSE

checkPostExistsComprehensive(ans) ==
  IF ans.error = "throw" THEN FALSE
  ELSE IF ans.error # "none" /\ ans.error # "PGRST116" THEN FALSE
  ELSE ans.data

\* ------------------------------------------------- comprehensiveCrawl
\* CRAWL_STRATEGIES (comprehensive-crawler.ts 20-26).
CRAWL_STRATEGIES ==
  << [sort |-> "new", time |-> "none", batches |-> 5],
     [sort |-> "hot", time |-> "none", batches |-> 2],
     [sort |-> "top", time |-> "week", batches |-> 1],
     [sort |-> "top", time |-> "month", batches |-> 1],
     [sort |-> "top", time |-> "year", batches |-> 1] >>

\* The pagination cursor (data.data.after): an opaque value naming the page
\* that follows, written here as the fetch (strategy, batch) it came with;
\* NoCursor is null, the end of the listing.
Cursor(s, batch) == [s |-> s, batch |-> batch]
NoCursor == Cursor(0, 0)

\* Posts of the listing pages of a crawl: two direct images, a video and an
\* Imgur album.
CrawlDirect(id) ==
  CrawlPost(id, << "https://", "i.redd.it", "/x", ".jpg" >>, FALSE, FALSE,
            FALSE, <<>>, <<>>)
CrawlVideo(id) ==
  CrawlPost(id, << "https://", "v.redd.it", "/x" >>, TRUE, FALSE, FALSE,
            <<>>, <<>>)
CrawlAlbum(id) ==
  CrawlPost(id, << "https://", "imgur.com/a/", "abc" >>, FALSE, FALSE, FALSE,
            <<>>, <<>>)

CrawlPool ==
  { CrawlDirect("p1"), CrawlDirect("p2"), CrawlVideo("p2"), CrawlAlbum("p1") }

\* Lengths of the listing pages; the posts of a page are drawn from
\* CrawlPool one by one, as processPosts reaches them.
PageLengths == 0..MaxBatchPosts

\* Answers of the three probes of an album; in a crawl: every guess is an
\* image, only the last one is, none is.
AlbumAnswers == [1..3 -> ProbeAnswers]

AllImages == [i \in 1..3 |-> "image"]

CrawlAlbumAnswers ==
  { AllImages, << "throw", "notOk", "image" >>,
    << "throw", "notOk", "notImage" >> }

\* Counters of one strategy and of the crawl.
NoCounts == [inserted |-> 0, skipped |-> 0, errors |-> 0]
NoTotal == [processed |-> 0, inserted |-> 0, skipped |-> 0, errors |-> 0]

\* A request to Reddit: the token request, or the listing request of a
\* strategy (sort, time) with a cursor.
Request(kind, s, after) == [kind |-> kind, s |-> s, after |-> after]
NoRequest == Request("none", 0, NoCursor)

\* The control state of a crawl before it starts.  s, batch, after: the
\* strategy, the batch and the cursor of the loops; accessToken: the module's
\* token is cached; pageLen, nextAfter: posts.length and the cursor of the
\* fetched page; i: the position of processPosts in the page; post: the id
\* of the post being looked up or inserted; lookup: how the latest existence
\* lookup of the crawl ended ("exists", "absent", "failed"; "none" before
\* it); strat, total: the counters of the strategy and of the crawl.
NoPost == "none"

CrawlIdle ==
  [pc |-> "off", s |-> 1, batch |-> 1, after |-> NoCursor,
   accessToken |-> FALSE, pageLen |-> 0, nextAfter |-> NoCursor, i |-> 0,
   post |-> NoPost, lookup |-> "none", strat |-> NoCounts,
   total |-> NoTotal]

\* fetchRedditPostsBatch is called: getAccessToken returns the cached token
\* and the listing request goes out, or the token is requested first.
callFetch(c) == [c EXCEPT !.pc = IF c.accessToken THEN "listing" ELSE "token"]

\* The body of the strategy loop is over (395-399): the strategy's counters
\* are added to the totals and the next strategy starts with no cursor; after
\* the last one the crawl throws when nothing was processed and something
\* failed (409-411), and returns the totals otherwise.
endStrategy(c) ==
  LET total == [c.total EXCEPT !.inserted = @ + c.strat.inserted,
                               !.skipped = @ + c.strat.skipped,
                               !.errors = @ + c.strat.errors]
  IN  IF c.s < Len(CRAWL_STRATEGIES)
        THEN callFetch([c EXCEPT !.total = total, !.s = @ + 1, !.batch = 1,
                                 !.after = NoCursor, !.strat = NoCounts])
        ELSE [c EXCEPT !.total = total, !.strat = NoCounts,
                       !.pc = IF total.processed = 0 /\ total.errors > 0
                                THEN "thrownEmpty" ELSE "returned"]

nextBatchOneTooMany(c) ==
  IF c.batch <= CRAWL_STRATEGIES[c.s].batches
    THEN callFetch([c EXCEPT !.batch = @ + 1])
    ELSE endStrategy(c)

\* batch++ of the batch loop (349).
nextBatch(c) ==
  IF c.batch < CRAWL_STRATEGIES[c.s].batches
    THEN callFetch([c EXCEPT !.batch = @ + 1])
    ELSE endStrategy(c)

batchFailedNotCounted(c, has401) ==
  IF has401
    THEN [c EXCEPT !.strat.errors = @ + 1, !.pc = "thrown401"]
    ELSE nextBatch(c)

\* The catch of a batch (382-392): the error is counted; a message with 401
\* is rethrown, any other error lets the batch loop go on.
batchFailed(c, has401) ==
  IF has401
    THEN [c EXCEPT !.strat.errors = @ + 1, !.pc = "thrown401"]
    ELSE nextBatch([c EXCEPT !.strat.errors = @ + 1])

\* processPosts takes the next post of the page; after the last one it
\* returns and the batch ends (366-380): the page is counted, the cursor
\* moves, and the strategy ends on a null cursor or pauses 200 ms.
nextPost(c) ==
  IF c.i < c.pageLen
    THEN [c EXCEPT !.i = @ + 1, !.pc = "validate", !.post = NoPost]
    ELSE LET d == [c EXCEPT !.total.processed = @ + c.pageLen,
                            !.after = c.nextAfter, !.pageLen = 0, !.i = 0,
                            !.nextAfter = NoCursor, !.post = NoPost]
         IN  IF d.after = NoCursor THEN endStrategy(d)
             ELSE [d EXCEPT !.pc = "pause"]

\* The request a crawl is waiting on.
inFlight(c) ==
  IF c.pc = "token" THEN Request("token", 0, NoCursor)
  ELSE IF c.pc = "listing" THEN Request("listing", c.s, c.after)
  ELSE NoRequest

\* faulted: ids with a failed existence lookup; lastFailed: the latest
\* request to Reddit that failed; events: answers of Reddit so far that
\* were a non-empty page or a failure.
\* tape: a fuller history, written only by a crawl that starts with the
\* tape on.  listings: per strategy, listing requests answered; failed:
\* calls of fetchRedditPostsBatch that threw; saw401: one of them threw an
\* error with 401; posts: posts of the pages fetched; last: the strategy,
\* posts.length and cursor of the latest page fetched.
NoTape ==
  [on |-> FALSE, listings |-> [s \in 1..Len(CRAWL_STRATEGIES) |-> 0],
   failed |-> 0, saw401 |-> FALSE, posts |-> 0,
   last |-> [s |-> 0, len |-> 0, after |-> NoCursor]]

NoCrawlLog ==
  [faulted |-> {}, lastFailed |-> NoRequest, events |-> 0, tape |-> NoTape]

\* The tape after the listing request of strategy s was answered.
tapeListing(log, s) ==
  IF log.tape.on THEN [log EXCEPT !.tape.listings[s] = @ + 1] ELSE log

\* The tape after fetchRedditPostsBatch returned a page of n posts.
tapePage(log, s, n, nextAfter) ==
  IF log.tape.on
    THEN [log EXCEPT !.tape.posts = @ + n,
                     !.tape.last = [s |-> s, len |-> n, after |-> nextAfter]]
    ELSE log

\* The tape after fetchRedditPostsBatch threw.
tapeFailure(log, has401) ==
  IF log.tape.on
    THEN [log EXCEPT !.tape.failed = @ + 1, !.tape.saw401 = @ \/ has401]
    ELSE log

\* --------------------------------- inputs of the resolver taken alone
\* Inputs of one crawl item: the post, what the album probes and the
\* availability probe would answer, and the answer of the storage lookup.
MediaIds == { "m1", "m2", "m3" }

\* The s.u of a media entry, with an escaped ampersand.
MediaU(media_id) ==
  << "https://", "preview.redd.it", "/", media_id, "?a=1", "&amp;", "b=2" >>

MediaEntries ==
  { [media_id |-> m, u |-> u] : m \in MediaIds, u \in { NoUrl } } \cup
  { [media_id |-> m, u |-> MediaU(m)] : m \in MediaIds }

\* media_metadata has one entry per key.
MediaMetadatas ==
  { mm \in UNION { [1..n -> MediaEntries] : n \in 0..MaxMedia } :
      \A i, j \in 1..Len(mm) : mm[i].media_id = mm[j].media_id => i = j }

GalleryItems == UNION { [1..n -> MediaIds] : n \in 0..MaxMedia }

GalleryUrl == << "https://", "www.", "reddit.com/gallery/", "abc" >>

GalleryPosts ==
  { CrawlPost("p1", GalleryUrl, v, g, h, mm, items) :
      v \in BOOLEAN, g \in BOOLEAN, h \in BOOLEAN, mm \in MediaMetadatas,
      items \in GalleryItems }

PlainUrls ==
  { NoUrl,
    << "https://", "i.redd.it", "/x", ".jpg" >>,
    << "https://", "example.com", "/x", ".PNG" >>,
    << "https://", "imgur.com/a/", "abc" >>,
    << "https://", "imgur.com/gallery/", "xyz" >>,
    << "https://", "imgur.com/a/" >>,
    << "https://", "example.com", "/page" >> }

PlainPosts ==
  { CrawlPost("p1", url, v, FALSE, FALSE, <<>>, <<>>) :
      url \in PlainUrls, v \in BOOLEAN }

ItemInput(p, albumAnswers, availability, lookup) ==
  [post |-> p, albumAnswers |-> albumAnswers, availability |-> availability,
   lookup |-> lookup]

\* Plain posts under every answer of the probes, gallery posts under every
\* answer of the availability probe, and one post under every lookup answer.
ItemInputs ==
  { ItemInput(p, a, v, LookupNotFound) :
      p \in PlainPosts, a \in AlbumAnswers, v \in ProbeAnswers } \cup
  { ItemInput(p, AllImages, v, LookupNotFound) :
      p \in GalleryPosts, v \in ProbeAnswers } \cup
  { ItemInput(CrawlDirect("p1"), AllImages, "image", l) :
      l \in { LookupFound, LookupNotFound, LookupFailed, LookupThrown } }

NoValidation == ImageValidation(FALSE, NoUrl, "none", <<>>)

\* validation: validateImage of crawler.ts; validationC: the one of
\* comprehensive-crawler.ts; firstImage: extractFirstImageFromGallery;
\* album: extractImageFromImgurAlbum on the post's url; exists, existsC,
\* commented: the three lookups' results.
ItemCalled(in) ==
  [pc |-> "called", in |-> in, validation |-> NoValidation,
   validationC |-> NoValidation, firstImage |-> NoUrl,
   album |-> [url |-> NoUrl, probed |-> <<>>], exists |-> FALSE,
   existsC |-> FALSE, commented |-> FALSE]

\* ------------------------------------ RedditOAuthManager.getAccessToken
\* The buffer of the validity test, in seconds (part_000 line 28).
ExpiryBuffer == 60

\* currentToken: null, or a token with its expiry time in seconds.
NoToken == [set |-> FALSE, access_token |-> 0, expires_at |-> 0]

\* The validity test of getAccessToken at time now (seconds).
tokenFreshNoBuffer(token, now) == token.set /\ token.expires_at > now

tokenFresh(token, now) == token.set /\ token.expires_at > now + ExpiryBuffer

\* Seconds the clock moves in one advance, and lifetimes (expires_in) the
\* token endpoint grants.
ClockSteps == { 1, 59, 60 }
ExpiresIn == { 60, 61, 120 }

\* pc: "idle" or "refreshing" (the refresh request is out); now: the clock;
\* currentToken: the cache; outcome, returned: how the latest call ended and
\* the token it returned; refreshes: refresh requests of the latest call;
\* callNow, cachedAtCall: the clock and the cache when it was made; minted,
\* ticks: tokens granted and clock advances so far.
OAuthIdle ==
  [pc |-> "idle", now |-> 0, currentToken |-> NoToken, outcome |-> "none",
   returned |-> 0, refreshes |-> 0, callNow |-> 0, cachedAtCall |-> NoToken,
   minted |-> 0, ticks |-> 0]

\* ------------------------------- getAccessToken (client credentials)
\* The module-level accessToken of crawler.ts (236), comprehensive-crawler.ts
\* (200) and the commenter (part_001 85), with the getAccessToken that fills
\* it; the three copies are the same code.  The cache holds the token string
\* only; expires_at is the time from which Reddit refuses the token (the
\* expires_in of the answer, which the code does not read).
\* pc: "idle" or "requesting" (the token request is out); now: the clock;
\* accessToken: the cache; outcome, returned: how the latest call ended and
\* the token it returned; requests: token requests of the latest call;
\* callNow, cachedAtCall: the clock and the cache when it was made; minted,
\* ticks: tokens granted and clock advances so far.
ClientIdle ==
  [pc |-> "idle", now |-> 0, accessToken |-> NoToken, outcome |-> "none",
   returned |-> 0, requests |-> 0, callNow |-> 0, cachedAtCall |-> NoToken,
   minted |-> 0, ticks |-> 0]

\* ------------------------------------------------ crawlReddit of crawler.ts
\* The control state of crawlReddit before it starts.  n: posts.length; i:
\* posts taken by the for loop; post: the id of the post being looked up or
\* inserted; result: the CrawlerResult.
RedditIdle ==
  [pc |-> "off", n |-> 0, i |-> 0, post |-> NoPost, result |-> NoTotal]

\* The loop body of crawlReddit ended for a post (318-360): continue after a
\* skip, an insert that returned a row or null, or the catch of the body.
countOutcomeDropsFailedInsert(c, outcome) ==
  [c EXCEPT !.pc = "loop", !.post = NoPost,
            !.result.inserted = @ + (IF outcome = "inserted" THEN 1 ELSE 0),
            !.result.skipped = @ + (IF outcome = "skipped" THEN 1 ELSE 0),
            !.result.errors = @ + (IF outcome = "caught" THEN 1 ELSE 0)]

countOutcome(c, outcome) ==
  [c EXCEPT !.pc = "loop", !.post = NoPost,
            !.result.inserted = @ + (IF outcome = "inserted" THEN 1 ELSE 0),
            !.result.skipped = @ + (IF outcome = "skipped" THEN 1 ELSE 0),
            !.result.errors =
               @ + (IF outcome \in { "notInserted", "caught" } THEN 1 ELSE 0)]

\* ------------------------------------------------------------------- state
VARIABLES
  pc,             \* where the running process is ("idle": no process)
  runs,           \* process runs finished so far
  dryRunMode,     \* config.qualityControl.dryRunMode of the current run
  accessToken,    \* the module's cached client-credentials token is set
  imagePosts,     \* filterCandidatePosts: posts that passed stages (a)-(c)
  k,              \* filterCandidatePosts: index of the post being looked up
  notCommented,   \* filterCandidatePosts: posts found not commented so far
  candidates,     \* runIntelligentCommenter: the filter's result
  idx,            \* runIntelligentCommenter: candidates taken from the list
  result,         \* runIntelligentCommenter: the CommenterResult counters
  commentText,    \* processPost: the text handed to the submission in flight
  bot_comments,   \* the table: reddit_post_id of every row, in insert order
  submitsOK,      \* history: per post, real submissions confirmed successful
  recordCalls,    \* history: per post, invocations of recordComment
  faulted,        \* history: posts listed twice in a page, or with a failed
                  \*   lookup or a failed record write
  io,             \* history: requests of this run outside the candidates
  lookupLog,      \* history: the lookups of the latest filterCandidatePosts
                  \*   call, kept until the run takes its first candidate
  cand,           \* history: what was done for the current candidate
  trail,          \* history: ids of the candidates taken in this run, in order
  genPc, genOk, genContent, genResult,  \* generateComment taken alone
  crawl,          \* comprehensiveCrawl: its control state and counters
  postsTable,     \* the table posts: rows per reddit_id
  crawlLog,       \* history: failed lookups and requests of the crawl
  item,           \* the resolver and the lookups taken alone
  oauth,          \* RedditOAuthManager.getAccessToken taken alone
  client,         \* the client-credentials getAccessToken taken alone
  reply,          \* RedditOAuthManager.postComment taken alone
  reddit          \* crawlReddit of crawler.ts: its control state and counters

vars ==
  << pc, runs, dryRunMode, accessToken, imagePosts, k, notCommented,
     candidates, idx, result, commentText, bot_comments, submitsOK,
     recordCalls, faulted, io, lookupLog, cand, trail, genPc, genOk,
     genContent, genResult, crawl, postsTable, crawlLog, item, oauth,
     client, reply, reddit >>

genVars == << genPc, genOk, genContent, genResult >>

crawlVars == << crawl, postsTable, crawlLog >>

\* What the commenter and generateComment leave alone.
sideVars == << crawlVars, item, oauth, client, reply, reddit >>

filterVars == << imagePosts, k, notCommented >>

historyVars == << submitsOK, recordCalls, faulted >>

runVars ==
  << pc, runs, dryRunMode, accessToken, imagePosts, k, notCommented,
     candidates, idx, result, commentText, bot_comments, submitsOK,
     recordCalls, faulted, io, lookupLog, cand, trail >>

NoResult ==
  [processed |-> 0, commented |-> 0, skipped |-> 0, errors |-> 0,
   apiCallsUsed |-> 0]

\* fetchFailed: the hot-posts fetch failed; postCalls: calls of postComment;
\* failures: candidates ended by a failed external call.
NoIo == [fetchFailed |-> FALSE, postCalls |-> 0, failures |-> 0]

\* lookups: ids looked up in bot_comments, in order; failed: ids whose lookup
\* returned a query error or threw.
NoLookups == [lookups |-> <<>>, failed |-> {}]

\* fetched/generated/submitSent/insertSent: the request was sent; validated:
\* a completion text went through the validation; postCalled: postComment was
\* called; failed: the candidate ended on a failed external call; submitOk:
\* the real submission was confirmed successful; delayed: the pacing delay of
\* processPost was awaited; comments: the comments fetchPostComments
\* returned before its filter, held until generateComment answers.
NoCand ==
  [fetched |-> FALSE, generated |-> FALSE, validated |-> FALSE,
   postCalled |-> FALSE, submitSent |-> FALSE, insertSent |-> FALSE,
   failed |-> FALSE, submitOk |-> FALSE, delayed |-> FALSE,
   comments |-> <<>>]

\* Rows of the table for a post.
rows(id) == Cardinality({ i \in 1..Len(bot_comments) : bot_comments[i] = id })

\* Ids that occur more than once in a page.
listedTwice(page) ==
  { page[i].id : i \in { j \in 1..Len(page) :
                           \E h \in 1..Len(page) : h # j /\ page[h].id = page[j].id } }

InitRun ==
  /\ pc = "idle"
  /\ runs = 0
  /\ dryRunMode = FALSE
  /\ accessToken = FALSE
  /\ imagePosts = <<>>
  /\ k = 0
  /\ notCommented = <<>>
  /\ candidates = <<>>
  /\ idx = 0
  /\ result = NoResult
  /\ commentText = null
  /\ bot_comments = <<>>
  /\ submitsOK = [id \in PostIds |-> 0]
  /\ recordCalls = [id \in PostIds |-> 0]
  /\ faulted = {}
  /\ io = NoIo
  /\ lookupLog = NoLookups
  /\ cand = NoCand
  /\ trail = <<>>

\* The parts taken alone are off while the commenter runs, and the other
\* way round.
GenOff ==
  /\ genPc = "off"
  /\ genOk = FALSE
  /\ genContent = <<>>
  /\ genResult = null

CrawlOff ==
  /\ crawl = CrawlIdle
  /\ postsTable = [id \in PostIds |-> 0]
  /\ crawlLog = NoCrawlLog

ItemOff ==
  item = [ItemCalled(ItemInput(CrawlDirect("p1"), AllImages, "image",
                               LookupNotFound)) EXCEPT !.pc = "off"]

OAuthOff == oauth = [OAuthIdle EXCEPT !.pc = "off"]

ClientOff == client = [ClientIdle EXCEPT !.pc = "off"]

ReplyOff ==
  reply = [ReplyCalled(PostResponse(FALSE, FALSE, FALSE, "invalid", FALSE,
                                    "absent", FALSE, "absent", "absent"))
             EXCEPT !.pc = "off"]

RedditOff == reddit = RedditIdle

Init ==
  /\ InitRun
  /\ GenOff
  /\ CrawlOff
  /\ ItemOff
  /\ OAuthOff
  /\ ClientOff
  /\ RedditOff
  /\ ReplyOff

\* ------------------------------------------------------------------ actions
\* main(): loadConfig, then the OAuth verification is awaited.
Main(dry) ==
  /\ pc = "idle"
  /\ runs < MaxRuns
  /\ dryRunMode' = dry
  /\ pc' = "verify"
  /\ UNCHANGED << runs, accessToken, filterVars, candidates, idx, result,
                  commentText, bot_comments, historyVars, io, lookupLog, cand,
                  trail, genVars, sideVars >>

\* verifyAuthentication answered; on success runIntelligentCommenter starts
\* and fetchHotPosts asks for the client-credentials token.
VerifyAuthentication(userInfo) ==
  /\ pc = "verify"
  /\ pc' = IF userInfo THEN "token" ELSE "exit1"
  /\ UNCHANGED << runs, dryRunMode, accessToken, filterVars, candidates, idx,
                  result, commentText, bot_comments, historyVars, io, lookupLog,
                  cand, trail, genVars, sideVars >>

\* getAccessToken (179-212) inside fetchHotPosts: the token endpoint answered.
GetAccessToken(ok) ==
  /\ pc = "token"
  /\ IF ok
       THEN /\ accessToken' = TRUE
            /\ pc' = "fetchHotPosts"
            /\ io' = io
       ELSE /\ accessToken' = accessToken
            /\ pc' = afterFetchFailure
            /\ io' = [io EXCEPT !.fetchFailed = TRUE]
  /\ UNCHANGED << runs, dryRunMode, filterVars, candidates, idx, result,
                  commentText, bot_comments, historyVars, lookupLog, cand,
                  trail, genVars, sideVars >>

\* fetchHotPosts (214-252): the listing answered.  On success the run counts
\* the call and filterCandidatePosts runs its stages (a)-(c) up to the first
\* storage lookup; with nothing to look up it returns at once.
FetchHotPosts(ok, page, now) ==
  /\ pc = "fetchHotPosts"
  /\ IF ~ok
       THEN /\ pc' = afterFetchFailure
            /\ io' = [io EXCEPT !.fetchFailed = TRUE]
            /\ UNCHANGED << filterVars, candidates, result, faulted, lookupLog >>
       ELSE LET passed == filterStages(page, now) IN
            /\ result' = [result EXCEPT !.apiCallsUsed = @ + 1]
            /\ faulted' = faulted \cup listedTwice(page)
            /\ IF passed = <<>>
                 THEN /\ candidates' = filterReturn(<<>>)
                      /\ pc' = "returned"
                      /\ io' = io
                      /\ UNCHANGED << filterVars, lookupLog >>
                 ELSE /\ imagePosts' = passed
                      /\ k' = 1
                      /\ notCommented' = <<>>
                      /\ pc' = "checkCommented"
                      /\ io' = io
                      /\ lookupLog' = [lookupLog EXCEPT !.lookups = Append(@, passed[1].id)]
                      /\ UNCHANGED candidates
  /\ UNCHANGED << runs, dryRunMode, accessToken, idx, commentText,
                  bot_comments, submitsOK, recordCalls, cand, trail, genVars, sideVars >>

\* checkAlreadyCommented (139-157) answered for imagePosts[k]; the loop of
\* filterCandidatePosts issues the next lookup or returns the candidates.
CheckAlreadyCommented(ans) ==
  /\ pc = "checkCommented"
  /\ LET looked == imagePosts[k]
         kept == IF checkAlreadyCommented(ans)
                   THEN notCommented
                   ELSE Append(notCommented, looked)
         failed == IF ans \in { LookupFailed, LookupThrown }
                     THEN { looked.id }
                     ELSE {}
     IN  /\ ans = LookupFound => rows(looked.id) = 1
         /\ ans = LookupNotFound => rows(looked.id) # 1
         /\ faulted' = faulted \cup failed
         /\ IF k < Len(imagePosts)
              THEN /\ k' = k + 1
                   /\ notCommented' = kept
                   /\ lookupLog' = [lookups |-> Append(lookupLog.lookups, imagePosts[k + 1].id),
                                    failed |-> lookupLog.failed \cup failed]
                   /\ UNCHANGED << pc, imagePosts, candidates >>
              ELSE /\ candidates' = filterReturn(kept)
                   /\ pc' = IF filterReturn(kept) = <<>> THEN "returned" ELSE "loop"
                   /\ imagePosts' = <<>>
                   /\ k' = 0
                   /\ notCommented' = <<>>
                   /\ lookupLog' = [lookupLog EXCEPT !.failed = @ \cup failed]
  /\ UNCHANGED << runs, dryRunMode, accessToken, idx, result, commentText,
                  bot_comments, submitsOK, recordCalls, io, cand, trail, genVars, sideVars >>

\* The candidate being processed.
post == candidates[idx]

\* processPost ended (event) and the loop body counted it.
FinishCandidate(event) ==
  /\ result' = tally(result, processPost(event), dryRunMode)
  /\ pc' = nextCandidate(processPost(event))
  /\ commentText' = null

\* processPost after the comment was posted and, outside dry-run, recorded:
\* the pacing delay is awaited when one is configured.
AfterRecorded ==
  IF delayBetweenComments > 0
    THEN /\ pc' = "delay"
         /\ commentText' = null
         /\ UNCHANGED result
    ELSE FinishCandidate("ok")

\* for (const post of candidates): the next candidate is taken, counted, and
\* processPost asks for its comments.
BeginCandidate ==
  /\ pc = "loop"
  /\ idx < Len(candidates)
  /\ idx' = idx + 1
  /\ result' = [result EXCEPT !.processed = @ + 1]
  /\ trail' = Append(trail, candidates[idx + 1].id)
  /\ cand' = NoCand
  /\ lookupLog' = NoLookups
  /\ pc' = "fetchComments"
  /\ UNCHANGED << runs, dryRunMode, accessToken, filterVars, candidates,
                  commentText, bot_comments, historyVars, io, genVars, sideVars >>

\* fetchPostComments (254-282) answered: the OAuth token could not be had
\* ("tokenFail"), the request failed ("httpError"), or the raw comments came.
\* With at least three usable comments generateComment sends its request.
FetchPostComments(ans, raw) ==
  /\ pc = "fetchComments"
  /\ LET sent == ans # "tokenFail" IN
     IF ans # "ok"
       THEN /\ cand' = [cand EXCEPT !.fetched = sent, !.failed = TRUE]
            /\ io' = [io EXCEPT !.failures = @ + 1]
            /\ FinishCandidate("fetchThrow")
       ELSE IF Len(usableComments(raw)) < MinUsableComments
       THEN /\ cand' = [cand EXCEPT !.fetched = sent, !.comments = raw]
            /\ io' = io
            /\ FinishCandidate("fewComments")
       ELSE /\ cand' = [cand EXCEPT !.fetched = sent, !.generated = TRUE,
                                    !.comments = raw]
            /\ io' = io
            /\ pc' = "generate"
            /\ UNCHANGED << result, commentText >>
  /\ UNCHANGED << runs, dryRunMode, accessToken, filterVars, candidates, idx,
                  bot_comments, historyVars, trail, lookupLog, genVars, sideVars >>

\* Completion texts the run is fed: blank, too short, valid with blanks
\* around, blacklisted, too long, too long and blacklisted.
GenContents ==
  { <<>>, <<"a">>, <<" ", "b", "a", " ">>, <<"a", "b">>,
    <<"b", "b", "b", "b">>, <<"a", "B", "b", "b">> }

\* generateComment (325-390) answered.  A null text ends the candidate;
\* otherwise postComment (284-308) is called: in dry-run it returns true at
\* once, else the submission goes out through the OAuth manager.
GenerateComment(ok, content) ==
  /\ pc = "generate"
  /\ LET text == generateComment(ok, content) IN
     IF text = null
       THEN /\ cand' = [cand EXCEPT !.comments = <<>>, !.validated = ok, !.failed = ~ok]
            /\ io' = [io EXCEPT !.failures = @ + (IF ok THEN 0 ELSE 1)]
            /\ FinishCandidate("noText")
            /\ UNCHANGED recordCalls
       ELSE IF ~dryRunMode
       THEN /\ cand' = [cand EXCEPT !.comments = <<>>, !.validated = ok, !.postCalled = TRUE]
            /\ io' = [io EXCEPT !.postCalls = @ + 1]
            /\ commentText' = text
            /\ pc' = "post"
            /\ UNCHANGED << result, recordCalls >>
       ELSE IF recordAfterPost(TRUE, dryRunMode)
       THEN /\ cand' = [cand EXCEPT !.comments = <<>>, !.validated = ok, !.postCalled = TRUE,
                                    !.insertSent = TRUE]
            /\ io' = [io EXCEPT !.postCalls = @ + 1]
            /\ recordCalls' = [recordCalls EXCEPT ![post.id] = @ + 1]
            /\ commentText' = null
            /\ pc' = "record"
            /\ UNCHANGED result
       ELSE /\ cand' = [cand EXCEPT !.comments = <<>>, !.validated = ok, !.postCalled = TRUE]
            /\ io' = [io EXCEPT !.postCalls = @ + 1]
            /\ AfterRecorded
            /\ UNCHANGED recordCalls
  /\ UNCHANGED << runs, dryRunMode, accessToken, filterVars, candidates, idx,
                  bot_comments, submitsOK, faulted, trail, lookupLog, genVars, sideVars >>

\* RedditOAuthManager.postComment (part_000 110-160) answered; processPost
\* returns false unless it reported success, and records otherwise.
PostComment(ans) ==
  /\ pc = "post"
  /\ LET posted == oauthPostComment(ans) IN
     /\ submitsOK' = IF posted
                       THEN [submitsOK EXCEPT ![post.id] = @ + 1]
                       ELSE submitsOK
     /\ IF recordAfterPost(posted, dryRunMode)
          THEN /\ cand' = [cand EXCEPT !.submitSent = ans.token,
                                       !.submitOk = posted,
                                       !.insertSent = TRUE]
               /\ recordCalls' = [recordCalls EXCEPT ![post.id] = @ + 1]
               /\ pc' = "record"
               /\ commentText' = null
               /\ UNCHANGED << result, io >>
          ELSE IF ~posted
          THEN /\ cand' = [cand EXCEPT !.submitSent = ans.token, !.failed = TRUE]
               /\ io' = [io EXCEPT !.failures = @ + 1]
               /\ FinishCandidate("notPosted")
               /\ UNCHANGED recordCalls
          ELSE /\ cand' = [cand EXCEPT !.submitSent = ans.token,
                                       !.submitOk = posted]
               /\ io' = io
               /\ AfterRecorded
               /\ UNCHANGED recordCalls
  /\ UNCHANGED << runs, dryRunMode, accessToken, filterVars, candidates, idx,
                  bot_comments, faulted, trail, lookupLog, genVars, sideVars >>

\* recordComment (159-176) answered: the row was inserted ("ok"), the insert
\* returned an error, or it threw.
RecordComment(ans) ==
  /\ pc = "record"
  /\ IF ans = "ok"
       THEN /\ bot_comments' = Append(bot_comments, post.id)
            /\ AfterRecorded
            /\ UNCHANGED << cand, faulted, io >>
       ELSE /\ cand' = [cand EXCEPT !.failed = TRUE]
            /\ io' = [io EXCEPT !.failures = @ + 1]
            /\ faulted' = faulted \cup { post.id }
            /\ FinishCandidate("notRecorded")
            /\ UNCHANGED bot_comments
  /\ UNCHANGED << runs, dryRunMode, accessToken, filterVars, candidates, idx,
                  submitsOK, recordCalls, trail, lookupLog, genVars, sideVars >>

\* The pacing delay of processPost elapsed; it returns true.
DelayElapsed ==
  /\ pc = "delay"
  /\ cand' = [cand EXCEPT !.delayed = TRUE]
  /\ FinishCandidate("ok")
  /\ UNCHANGED << runs, dryRunMode, accessToken, filterVars, candidates, idx,
                  bot_comments, historyVars, io, trail, lookupLog, genVars, sideVars >>

\* The loop is over: the summary is logged and the result returned.
Summarize ==
  /\ pc = "loop"
  /\ idx = Len(candidates)
  /\ pc' = "done"
  /\ UNCHANGED << runs, dryRunMode, accessToken, filterVars, candidates, idx,
                  result, commentText, bot_comments, historyVars, io, lookupLog,
                  cand, trail, genVars, sideVars >>

\* The process exits: process.exit(0) after a returned result, process.exit(1)
\* after a failed verification or a thrown error.  The next run is a new
\* process with fresh module state.
Exit ==
  /\ pc \in { "done", "returned", "thrown", "exit1" }
  /\ pc' = "idle"
  /\ runs' = runs + 1
  /\ dryRunMode' = FALSE
  /\ accessToken' = FALSE
  /\ imagePosts' = <<>>
  /\ k' = 0
  /\ notCommented' = <<>>
  /\ candidates' = <<>>
  /\ idx' = 0
  /\ result' = NoResult
  /\ commentText' = null
  /\ io' = NoIo
  /\ lookupLog' = NoLookups
  /\ cand' = NoCand
  /\ trail' = <<>>
  /\ UNCHANGED << bot_comments, historyVars, genVars, sideVars >>

RunStep ==
  \/ \E userInfo \in BOOLEAN : VerifyAuthentication(userInfo)
  \/ \E ok \in BOOLEAN : GetAccessToken(ok)
  \/ \E page \in Pages, now \in Nows : FetchHotPosts(TRUE, page, now)
  \/ FetchHotPosts(FALSE, <<>>, 0)
  \/ \E ans \in { LookupFound, LookupNotFound, LookupFailed, LookupThrown } :
       CheckAlreadyCommented(ans)
  \/ BeginCandidate
  \/ \E ans \in { "tokenFail", "httpError", "ok" }, raw \in RawCommentLists :
       FetchPostComments(ans, raw)
  \/ \E ok \in BOOLEAN, content \in GenContents : GenerateComment(ok, content)
  \/ \E ans \in PostAnswers : PostComment(ans)
  \/ \E ans \in { "ok", "error", "throw" } : RecordComment(ans)
  \/ DelayElapsed
  \/ Summarize
  \/ Exit

Next ==
  \/ \E dry \in BOOLEAN : Main(dry)
  \/ RunStep

Spec == Init /\ [][Next]_vars

\* One process run taken alone, with fairness.  Every awaited call answers
\* (each has a timeout or ends in an error), so a started run keeps taking
\* steps; whether and when a run starts is up to the scheduler.
MainFirst(dry) == runs = 0 /\ Main(dry)

NextOneRun ==
  \/ \E dry \in BOOLEAN : MainFirst(dry)
  \/ RunStep

SpecFair == Init /\ [][NextOneRun]_vars /\ WF_vars(RunStep)

\* --------------------------------------------- generateComment taken alone
\* The completion endpoint answered with any status and any text up to
\* MaxTextLen characters; generateComment returns; then it is called again.
InitGen ==
  /\ InitRun
  /\ CrawlOff
  /\ ItemOff
  /\ OAuthOff
  /\ ClientOff
  /\ RedditOff
  /\ ReplyOff
  /\ genPc = "called"
  /\ genOk \in BOOLEAN
  /\ genContent \in Texts
  /\ genResult = null

GenReturn ==
  /\ genPc = "called"
  /\ genResult' = generateComment(genOk, genContent)
  /\ genPc' = "returned"
  /\ UNCHANGED << genOk, genContent, runVars, sideVars >>

GenCall(ok, content) ==
  /\ genPc = "returned"
  /\ genOk' = ok
  /\ genContent' = content
  /\ genResult' = null
  /\ genPc' = "called"
  /\ UNCHANGED << runVars, sideVars >>

NextGen ==
  \/ GenReturn
  \/ \E ok \in BOOLEAN, content \in Texts : GenCall(ok, content)

SpecGen == InitGen /\ [][NextGen]_vars

\* --------------------------------------------- comprehensiveCrawl, one run
\* A crawl has just called fetchRedditPostsBatch for the first batch of the
\* first strategy; the table holds what earlier crawls stored: nothing, or
\* the first post.
InitCrawl ==
  /\ InitRun
  /\ GenOff
  /\ ItemOff
  /\ OAuthOff
  /\ ClientOff
  /\ RedditOff
  /\ ReplyOff
  /\ crawl = callFetch(CrawlIdle)
  /\ \E stored \in 0..1 :
       postsTable = [id \in PostIds |-> IF id = "p1" THEN stored ELSE 0]
  /\ crawlLog = NoCrawlLog

\* A request to Reddit failed: the history notes it.
noteFailure(log, request) ==
  [log EXCEPT !.lastFailed = request, !.events = @ + 1]

\* getAccessToken (200-236) answered: a token, HTTP 401, another status, or
\* a body without access_token.  Every failure throws into the batch's catch.
CrawlGetAccessToken(ans) ==
  /\ crawl.pc = "token"
  /\ IF ans = "ok"
       THEN /\ crawl' = [crawl EXCEPT !.accessToken = TRUE, !.pc = "listing"]
            /\ UNCHANGED crawlLog
       ELSE /\ crawlLog.events < MaxCrawlEvents
            /\ crawl' = batchFailed(crawl, ans = "401")
            /\ crawlLog' = tapeFailure(noteFailure(crawlLog, inFlight(crawl)),
                                       ans = "401")
  /\ UNCHANGED << postsTable, runVars, genVars, item, oauth, client, reply, reddit >>

\* fetchRedditPostsBatch (239-273) answered with a page of n posts and its
\* cursor, or failed with HTTP 401 or another error.  An empty page ends the
\* strategy; otherwise processPosts starts on the first post.
CrawlFetchBatch(ans, n, nextAfter) ==
  /\ crawl.pc = "listing"
  /\ IF ans # "ok"
       THEN /\ crawlLog.events < MaxCrawlEvents
            /\ crawl' = batchFailed(crawl, ans = "401")
            /\ crawlLog' = tapeFailure(
                              tapeListing(noteFailure(crawlLog, inFlight(crawl)),
                                          crawl.s),
                              ans = "401")
       ELSE IF n = 0
       THEN /\ crawl' = endStrategy(crawl)
            /\ crawlLog' = tapePage(tapeListing(crawlLog, crawl.s), crawl.s,
                                    0, nextAfter)
       ELSE /\ crawlLog.events < MaxCrawlEvents
            /\ crawl' = [crawl EXCEPT !.pageLen = n, !.i = 1,
                                      !.nextAfter = nextAfter,
                                      !.pc = "validate"]
            /\ crawlLog' = tapePage(
                              tapeListing([crawlLog EXCEPT !.events = @ + 1],
                                          crawl.s),
                              crawl.s, n, nextAfter)
  /\ UNCHANGED << postsTable, runVars, genVars, item, oauth, client, reply, reddit >>

\* validateImage answered for the i-th post of the page (284-288): an
\* invalid post is skipped, a valid one is looked up in the table.
CrawlValidateImage(p, albumAnswers) ==
  /\ crawl.pc = "validate"
  /\ crawl' = IF validateImageComprehensive(p, albumAnswers).isValid
                THEN [crawl EXCEPT !.pc = "exists", !.post = p.id]
                ELSE nextPost([crawl EXCEPT !.strat.skipped = @ + 1])
  /\ UNCHANGED << postsTable, crawlLog, runVars, genVars, item, oauth, client, reply, reddit >>

\* checkPostExists answered (291-295): an existing post is skipped, for
\* another one the insert is sent.
CrawlCheckPostExists(ans) ==
  /\ crawl.pc = "exists"
  /\ ans = LookupFound => postsTable[crawl.post] = 1
  /\ ans = LookupNotFound => postsTable[crawl.post] # 1
  /\ LET failed == ans \in { LookupFailed, LookupThrown } IN
     /\ crawl' = IF checkPostExistsComprehensive(ans)
                   THEN nextPost([crawl EXCEPT !.strat.skipped = @ + 1,
                                               !.lookup = "exists"])
                   ELSE [crawl EXCEPT !.pc = "insert",
                                      !.lookup = IF failed THEN "failed"
                                                 ELSE "absent"]
     /\ crawlLog' = IF failed
                      THEN [crawlLog EXCEPT !.faulted = @ \cup { crawl.post }]
                      ELSE crawlLog
  /\ UNCHANGED << postsTable, runVars, genVars, item, oauth, client, reply, reddit >>

\* insertPost (29-46) answered (311-317): the row was stored, or the insert
\* returned an error or threw.
CrawlInsertPost(ans) ==
  /\ crawl.pc = "insert"
  /\ IF ans = "ok"
       THEN /\ postsTable[crawl.post] < MaxRows
            /\ postsTable' = [postsTable EXCEPT ![crawl.post] = @ + 1]
            /\ crawl' = nextPost([crawl EXCEPT !.strat.inserted = @ + 1])
       ELSE /\ crawl' = nextPost([crawl EXCEPT !.strat.errors = @ + 1])
            /\ UNCHANGED postsTable
  /\ UNCHANGED << crawlLog, runVars, genVars, item, oauth, client, reply, reddit >>

\* The 200 ms pause between two batches elapsed (380).
CrawlPauseElapsed ==
  /\ crawl.pc = "pause"
  /\ crawl' = nextBatch(crawl)
  /\ UNCHANGED << postsTable, crawlLog, runVars, genVars, item, oauth, client, reply, reddit >>

NextCrawl ==
  \/ \E ans \in { "ok", "401", "500", "noToken" } : CrawlGetAccessToken(ans)
  \/ \E n \in PageLengths,
        nextAfter \in { NoCursor, Cursor(crawl.s, crawl.batch) } :
       CrawlFetchBatch("ok", n, nextAfter)
  \/ \E ans \in { "401", "500" } : CrawlFetchBatch(ans, 0, NoCursor)
  \/ \E p \in CrawlPool, albumAnswers \in CrawlAlbumAnswers :
       CrawlValidateImage(p, albumAnswers)
  \/ \E ans \in { LookupFound, LookupNotFound, LookupFailed, LookupThrown } :
       CrawlCheckPostExists(ans)
  \/ \E ans \in { "ok", "error", "throw" } : CrawlInsertPost(ans)
  \/ CrawlPauseElapsed

SpecCrawl == InitCrawl /\ [][NextCrawl]_vars

\* The same crawl with the tape on.
InitCrawlTape ==
  /\ InitRun
  /\ GenOff
  /\ ItemOff
  /\ OAuthOff
  /\ ClientOff
  /\ ReplyOff
  /\ RedditOff
  /\ crawl = callFetch(CrawlIdle)
  /\ \E stored \in 0..1 :
       postsTable = [id \in PostIds |-> IF id = "p1" THEN stored ELSE 0]
  /\ crawlLog = [NoCrawlLog EXCEPT !.tape.on = TRUE]

SpecCrawlTape == InitCrawlTape /\ [][NextCrawl]_vars

\* Every awaited call of a crawl answers (each request ends in a response,
\* an error or a time-out), so a crawl that has not ended takes a step.
SpecCrawlFair == InitCrawlTape /\ [][NextCrawl]_vars /\ WF_vars(NextCrawl)

\* ------------------------------- the resolver and the lookups taken alone
InitResolve ==
  /\ InitRun
  /\ GenOff
  /\ OAuthOff
  /\ ClientOff
  /\ RedditOff
  /\ ReplyOff
  /\ CrawlOff
  /\ \E in \in ItemInputs : item = ItemCalled(in)

ResolveReturn ==
  /\ item.pc = "called"
  /\ item' =
       [item EXCEPT
          !.pc = "returned",
          !.validation = validateImage(item.in.post, item.in.albumAnswers,
                                       item.in.availability),
          !.validationC = validateImageComprehensive(item.in.post,
                                                     item.in.albumAnswers),
          !.firstImage = extractFirstImageFromGallery(item.in.post),
          !.album = extractImageFromImgurAlbum(item.in.post.url,
                                               item.in.albumAnswers),
          !.exists = checkPostExists(item.in.lookup),
          !.existsC = checkPostExistsComprehensive(item.in.lookup),
          !.commented = checkAlreadyCommented(item.in.lookup)]
  /\ UNCHANGED << runVars, genVars, oauth, crawlVars, client, reply, reddit >>

NextResolve == ResolveReturn

SpecResolve == InitResolve /\ [][NextResolve]_vars

\* -------------------------- RedditOAuthManager.getAccessToken taken alone
\* A fresh process: nothing cached.  REDDIT_BOT_REFRESH_TOKEN is set.
InitOAuth ==
  /\ InitRun
  /\ GenOff
  /\ ItemOff
  /\ CrawlOff
  /\ ClientOff
  /\ RedditOff
  /\ ReplyOff
  /\ oauth = OAuthIdle

\* Time passes, between calls or while the refresh request is out.
OAuthTick(d) ==
  /\ oauth.pc \in { "idle", "refreshing" }
  /\ oauth.ticks < MaxTicks
  /\ oauth' = [oauth EXCEPT !.now = @ + d, !.ticks = @ + 1]
  /\ UNCHANGED << runVars, genVars, item, crawlVars, client, reply, reddit >>

\* getAccessToken is called (26-34): a fresh cached token is returned at
\* once; otherwise refreshAccessToken sends its request.
OAuthGetAccessToken ==
  /\ oauth.pc = "idle"
  /\ oauth' =
       IF tokenFresh(oauth.currentToken, oauth.now)
         THEN [oauth EXCEPT !.outcome = "cached",
                            !.returned = oauth.currentToken.access_token,
                            !.refreshes = 0, !.callNow = oauth.now,
                            !.cachedAtCall = oauth.currentToken]
         ELSE [oauth EXCEPT !.pc = "refreshing", !.outcome = "pending",
                            !.returned = 0, !.refreshes = 1,
                            !.callNow = oauth.now,
                            !.cachedAtCall = oauth.currentToken]
  /\ UNCHANGED << runVars, genVars, item, crawlVars, client, reply, reddit >>

\* The token endpoint answered the refresh (66-82, 36-40): a non-OK status
\* throws out of getAccessToken; otherwise the new token is cached with its
\* expiry time and returned.
OAuthRefreshAnswer(ok, expires_in) ==
  /\ oauth.pc = "refreshing"
  /\ IF ok
       THEN /\ oauth.minted < MaxTokens
            /\ oauth' =
                 [oauth EXCEPT
                    !.pc = "idle", !.outcome = "refreshed",
                    !.minted = @ + 1, !.returned = oauth.minted + 1,
                    !.currentToken = [set |-> TRUE,
                                      access_token |-> oauth.minted + 1,
                                      expires_at |-> oauth.now + expires_in]]
       ELSE oauth' = [oauth EXCEPT !.pc = "idle", !.outcome = "threw"]
  /\ UNCHANGED << runVars, genVars, item, crawlVars, client, reply, reddit >>

NextOAuth ==
  \/ \E d \in ClockSteps : OAuthTick(d)
  \/ OAuthGetAccessToken
  \/ \E expires_in \in ExpiresIn : OAuthRefreshAnswer(TRUE, expires_in)
  \/ OAuthRefreshAnswer(FALSE, 0)

SpecOAuth == InitOAuth /\ [][NextOAuth]_vars

\* ------------------------ the client-credentials getAccessToken taken alone
\* A fresh process: let accessToken = null.
InitClient ==
  /\ InitRun
  /\ GenOff
  /\ ItemOff
  /\ CrawlOff
  /\ OAuthOff
  /\ ReplyOff
  /\ RedditOff
  /\ client = ClientIdle

\* Time passes, between calls or while the token request is out.
ClientTick(d) ==
  /\ client.pc \in { "idle", "requesting" }
  /\ client.ticks < MaxTicks
  /\ client' = [client EXCEPT !.now = @ + d, !.ticks = @ + 1]
  /\ UNCHANGED << runVars, genVars, item, crawlVars, oauth, reply, reddit >>

\* getAccessToken is called: `if (accessToken) return accessToken`, whatever
\* the time; with nothing cached the token request is sent.
ClientGetAccessToken ==
  /\ client.pc = "idle"
  /\ client' =
       IF client.accessToken.set
         THEN [client EXCEPT !.outcome = "cached",
                             !.returned = client.accessToken.access_token,
                             !.requests = 0, !.callNow = client.now,
                             !.cachedAtCall = client.accessToken]
         ELSE [client EXCEPT !.pc = "requesting", !.outcome = "pending",
                             !.returned = 0, !.requests = 1,
                             !.callNow = client.now,
                             !.cachedAtCall = client.accessToken]
  /\ UNCHANGED << runVars, genVars, item, crawlVars, oauth, reply, reddit >>

\* The token endpoint answered: a token with its lifetime, which is cached
\* and returned; a non-OK status or a body without access_token, which throw
\* and leave the cache empty.
ClientTokenAnswer(ans, expires_in) ==
  /\ client.pc = "requesting"
  /\ IF ans = "ok"
       THEN /\ client.minted < MaxTokens
            /\ client' =
                 [client EXCEPT
                    !.pc = "idle", !.outcome = "requested",
                    !.minted = @ + 1, !.returned = client.minted + 1,
                    !.accessToken = [set |-> TRUE,
                                     access_token |-> client.minted + 1,
                                     expires_at |-> client.now + expires_in]]
       ELSE client' = [client EXCEPT !.pc = "idle", !.outcome = "threw"]
  /\ UNCHANGED << runVars, genVars, item, crawlVars, oauth, reply, reddit >>

NextClient ==
  \/ \E d \in ClockSteps : ClientTick(d)
  \/ ClientGetAccessToken
  \/ \E expires_in \in ExpiresIn : ClientTokenAnswer("ok", expires_in)
  \/ \E ans \in { "notOk", "noToken" } : ClientTokenAnswer(ans, 0)

SpecClient == InitClient /\ [][NextClient]_vars

\* ------------------------------ RedditOAuthManager.postComment taken alone
InitReply ==
  /\ InitRun
  /\ GenOff
  /\ ItemOff
  /\ CrawlOff
  /\ OAuthOff
  /\ ClientOff
  /\ RedditOff
  /\ \E r \in PostResponses : reply = ReplyCalled(r)

\* postComment (part_000 110-160) returned.
ReplyReturn ==
  /\ reply.pc = "called"
  /\ reply' = [reply EXCEPT !.pc = "returned",
                            !.posted = oauthPostComment(PostAnswerOf(reply.response))]
  /\ UNCHANGED << runVars, genVars, item, crawlVars, oauth, client, reddit >>

NextReply == ReplyReturn

SpecReply == InitReply /\ [][NextReply]_vars

\* ------------------------------------- crawlReddit and the commenter's loop
\* crawlReddit has just called fetchRedditPosts; the table holds what earlier
\* crawls stored: nothing, or the first post.
RedditStart == [RedditIdle EXCEPT !.pc = "fetch"]

\* fetchRedditPosts (273-298) answered: a page of n posts, or the token
\* request or the listing failed and the error is rethrown (296, 376).
RedditFetchPosts(ans, n) ==
  /\ reddit.pc = "fetch"
  /\ reddit' = IF ans = "ok" THEN [reddit EXCEPT !.n = n, !.pc = "loop"]
               ELSE [reddit EXCEPT !.pc = "threw"]
  /\ UNCHANGED << postsTable, crawl, crawlLog, runVars, genVars, item, oauth, client, reply >>

\* for (const post of posts) (318-319): the next post is taken and counted;
\* after the last one the result is returned (369).
RedditNextPost ==
  /\ reddit.pc = "loop"
  /\ reddit' = IF reddit.i < reddit.n
                 THEN [reddit EXCEPT !.i = @ + 1, !.pc = "validate",
                                     !.result.processed = @ + 1]
                 ELSE [reddit EXCEPT !.pc = "returned"]
  /\ UNCHANGED << postsTable, crawl, crawlLog, runVars, genVars, item, oauth, client, reply >>

\* validateImage answered for the post (323-328).  isString: post.url is a
\* string; for another truthy value isImageUrl throws into the catch of the
\* body (357-360).
RedditValidateImage(p, albumAnswers, availability, isString) ==
  /\ reddit.pc = "validate"
  /\ reddit' = IF ~isString THEN countOutcome(reddit, "caught")
               ELSE IF validateImage(p, albumAnswers, availability).isValid
                 THEN [reddit EXCEPT !.pc = "exists", !.post = p.id]
                 ELSE countOutcome(reddit, "skipped")
  /\ UNCHANGED << postsTable, crawl, crawlLog, runVars, genVars, item, oauth, client, reply >>

\* checkPostExists answered (331-336) and the row is built (339-349).
\* validDate: created_utc gives a valid Date; for another one toISOString
\* throws into the catch of the body.
RedditCheckPostExists(ans, validDate) ==
  /\ reddit.pc = "exists"
  /\ ans = LookupFound => postsTable[reddit.post] = 1
  /\ ans = LookupNotFound => postsTable[reddit.post] # 1
  /\ reddit' = IF checkPostExists(ans) THEN countOutcome(reddit, "skipped")
               ELSE IF ~validDate THEN countOutcome(reddit, "caught")
               ELSE [reddit EXCEPT !.pc = "insert"]
  /\ UNCHANGED << postsTable, crawl, crawlLog, runVars, genVars, item, oauth, client, reply >>

\* insertPost (14-32) answered (352-359): the stored row, or null after an
\* error or a throw.  hasTitle: post.title is a string; without one the log
\* line of a stored row throws into the catch of the body.
RedditInsertPost(ans, hasTitle) ==
  /\ reddit.pc = "insert"
  /\ IF ans = "ok"
       THEN /\ postsTable[reddit.post] < MaxRows
            /\ postsTable' = [postsTable EXCEPT ![reddit.post] = @ + 1]
            /\ reddit' = countOutcome(reddit, IF hasTitle THEN "inserted"
                                              ELSE "caught")
       ELSE /\ reddit' = countOutcome(reddit, "notInserted")
            /\ UNCHANGED postsTable
  /\ UNCHANGED << crawl, crawlLog, runVars, genVars, item, oauth, client, reply >>

NextReddit ==
  \/ \E n \in 0..MaxRedditPosts : RedditFetchPosts("ok", n)
  \/ \E ans \in { "tokenFailed", "httpError" } : RedditFetchPosts(ans, 0)
  \/ RedditNextPost
  \/ \E p \in CrawlPool, albumAnswers \in CrawlAlbumAnswers,
        availability \in ProbeAnswers, isString \in BOOLEAN :
       RedditValidateImage(p, albumAnswers, availability, isString)
  \/ \E ans \in { LookupFound, LookupNotFound, LookupFailed, LookupThrown },
        validDate \in BOOLEAN :
       RedditCheckPostExists(ans, validDate)
  \/ \E ans \in { "ok", "error", "throw" }, hasTitle \in BOOLEAN :
       RedditInsertPost(ans, hasTitle)

\* The two programs with a loop over items, each run alone: one run of the
\* commenter, or one run of crawlReddit.
InitTally ==
  /\ InitRun
  /\ GenOff
  /\ ItemOff
  /\ OAuthOff
  /\ ClientOff
  /\ ReplyOff
  /\ crawl = CrawlIdle
  /\ crawlLog = NoCrawlLog
  /\ \/ RedditOff /\ postsTable = [id \in PostIds |-> 0]
     \/ /\ reddit = RedditStart
        /\ \E stored \in 0..1 :
             postsTable = [id \in PostIds |-> IF id = "p1" THEN stored ELSE 0]

CommenterStep == RedditOff /\ NextOneRun

NextTally ==
  \/ CommenterStep
  \/ NextReddit

SpecTally == InitTally /\ [][NextTally]_vars

\* ------------------------------------------------------------------- claims
\* Ids of the posts of a list.
ids(posts) == { posts[i].id : i \in 1..Len(posts) }

\* C1: a CommentRecord for a post exists only after a real submission for it
\* was confirmed successful, and recordComment is never invoked before or
\* without that confirmation: per post, rows <= recordComment calls <=
\* confirmed submissions, in every state.
C1_RecordOnlyAfterConfirmedSubmission ==
  \A id \in PostIds :
    /\ rows(id) <= recordCalls[id]
    /\ recordCalls[id] <= submitsOK[id]

\* A record was written after its submission was confirmed, and a later
\* submission for another post was refused (no record call for it).
C1_Witness ==
  \E id \in PostIds :
    /\ rows(id) = 1
    /\ submitsOK[id] = 1
    /\ cand.submitSent /\ cand.failed /\ post.id # id
    /\ recordCalls[post.id] = 0

\* C2: in dry-run mode no submission request and no CommentRecord insert is
\* issued for any candidate, although postComment reports success; the
\* comment fetch, the generation and the validation are performed for a
\* candidate that reaches the (simulated) post.
C2_DryRunSendsNothing ==
  dryRunMode =>
    /\ ~cand.submitSent
    /\ ~cand.insertSent
    /\ pc \notin { "post", "record" }
    /\ cand.postCalled => cand.fetched /\ cand.generated /\ cand.validated

\* A dry run counted a candidate as commented.
C2_Witness ==
  /\ dryRunMode
  /\ result.commented = 1
  /\ cand.postCalled

\* The table only grows at its end.
AppendOnly ==
  /\ Len(bot_comments') >= Len(bot_comments)
  /\ SubSeq(bot_comments', 1, Len(bot_comments)) = bot_comments

\* C3 as claimed: for every post id at most one CommentRecord is ever
\* inserted and at most one comment is ever submitted, duplicate listings
\* and failed lookups included.
C3_AtMostOncePerPost ==
  \A id \in PostIds : rows(id) <= 1 /\ submitsOK[id] <= 1

\* C3 amended: records are only added; a post id gets at most one record and
\* at most one confirmed submission as long as it was never listed twice in a
\* page, no existence lookup for it failed and no record write for it failed.
C3_AtMostOnceUnlessFaulted ==
  /\ [](\A id \in PostIds :
          id \notin faulted => rows(id) <= 1 /\ submitsOK[id] <= 1)
  /\ [][AppendOnly]_vars

\* In a second run the one recorded post was looked up and left out.
C3_Witness ==
  \E id \in PostIds :
    /\ runs = 1
    /\ bot_comments = << id >>
    /\ submitsOK[id] = 1
    /\ id \notin faulted
    /\ lookupLog.lookups = << id >>
    /\ pc = "returned"

\* C4 as claimed: filterCandidatePosts never returns a post that has a
\* CommentRecord, whatever the outcome of the storage lookup.
C4_NeverReturnsCommented ==
  (pc = "loop" /\ idx = 0) =>
    \A i \in 1..Len(candidates) : rows(candidates[i].id) = 0

\* C4 amended: filterCandidatePosts returns a post that has a CommentRecord
\* only if a lookup of that post failed (query error or exception) in this
\* call, or if the post has more than one record (the single-row lookup then
\* reports PGRST116, which is read as "not found"); a post with one record
\* whose lookup answers is never returned.
C4_ReturnsCommentedOnlyAfterFailedLookup ==
  (pc = "loop" /\ idx = 0) =>
    \A i \in 1..Len(candidates) :
      rows(candidates[i].id) > 0 =>
        candidates[i].id \in lookupLog.failed \/ rows(candidates[i].id) > 1

\* The filter returned candidates and left out a recorded post it looked up.
C4_Witness ==
  /\ pc = "loop"
  /\ idx = 0
  /\ \E id \in PostIds :
       /\ rows(id) = 1
       /\ id \in Range(lookupLog.lookups)
       /\ id \notin lookupLog.failed
       /\ id \notin ids(candidates)

\* C5: generateComment never returns a text that contains a blacklisted
\* keyword (case-insensitively), texts longer than maxCommentLength included.
C5_NeverReturnsBlacklisted ==
  (genPc = "returned" /\ genResult # null) => ~hasBlacklisted(genResult)

\* C6: for the trimmed completion text t, a text shorter than
\* minCommentLength yields null, a text longer than maxCommentLength yields
\* exactly its first maxCommentLength characters, and every non-null result
\* has a length from minCommentLength to maxCommentLength.
C6_LengthValidation ==
  (genPc = "returned" /\ genOk) =>
    LET t == trim(genContent) IN
    /\ Len(t) < minCommentLength => genResult = null
    /\ Len(t) > maxCommentLength =>
         /\ genResult # null
         /\ Len(genResult) = maxCommentLength
         /\ \A i \in 1..maxCommentLength : genResult[i] = t[i]
    /\ genResult # null =>
         Len(genResult) >= minCommentLength /\ Len(genResult) <= maxCommentLength

\* A text longer than the maximum came back truncated.
C6_Witness ==
  /\ genPc = "returned"
  /\ genOk
  /\ Len(trim(genContent)) > maxCommentLength
  /\ genResult # null

\* C7: a failure on one candidate never aborts the run: the candidates are
\* taken in list order, and a run whose filter returned n candidates reaches
\* its summary with all n processed.
C7_FailureNeverAbortsRun ==
  /\ [](trail = [i \in 1..idx |-> candidates[i].id])
  /\ \A n \in 1..maxCommentsPerRun :
       (pc = "loop" /\ idx = 0 /\ Len(candidates) = n)
         ~> (pc = "done" /\ result.processed = n /\ Len(trail) = n)

\* The first of two candidates failed, the second was commented, and the run
\* reached its summary.
C7_Witness ==
  /\ pc = "done"
  /\ result.processed = 2
  /\ io.failures = 1
  /\ ~cand.failed
  /\ result.commented = 1

\* C8: every candidate whose processing fails (comment fetch exception, LLM
\* failure, failed submission, failed record write) adds one to the errors
\* counter of the run.
C8_FailuresCountedAsErrors ==
  pc \in { "loop", "done" } => result.errors = io.failures

\* C9: when the hot-posts fetch fails the run throws, and nothing was
\* filtered or processed in it: no lookup, no candidate, no comment fetch,
\* generation, submission or insert.
C9_FetchFailureAbortsBeforeAnyWork ==
  io.fetchFailed =>
    /\ pc = "thrown"
    /\ lookupLog = NoLookups
    /\ imagePosts = <<>>
    /\ candidates = <<>>
    /\ idx = 0
    /\ trail = <<>>
    /\ cand = NoCand
    /\ io.postCalls = 0
    /\ result = NoResult

\* The fetch of a later run failed while the table held a record.
C9_Witness ==
  /\ io.fetchFailed
  /\ pc = "thrown"
  /\ bot_comments # <<>>

\* C10: filterCandidatePosts returns at most maxCommentsPerRun posts, and
\* neither the candidates processed nor the postComment calls of a run
\* exceed maxCommentsPerRun.
C10_AtMostMaxCommentsPerRun ==
  /\ Len(candidates) <= maxCommentsPerRun
  /\ result.processed <= maxCommentsPerRun
  /\ io.postCalls <= maxCommentsPerRun
  /\ result.commented <= maxCommentsPerRun

\* Three posts were found not commented and two were returned.
C10_Witness ==
  /\ pc = "loop"
  /\ idx = 0
  /\ bot_comments = <<>>
  /\ Len(lookupLog.lookups) = 3
  /\ Len(candidates) = maxCommentsPerRun

\* C11: whenever the real submission for a candidate succeeded and
\* delayBetweenComments > 0, the pacing delay has been awaited by the time the
\* run is back at its loop, where the next candidate is taken; so no two
\* submissions of a run follow each other without the delay.
C11_DelayAfterEverySuccessfulSubmission ==
  (delayBetweenComments > 0 /\ pc = "loop" /\ cand.submitOk) => cand.delayed

C13_InsertedAtMostOnce ==
  /\ \A id \in PostIds : postsTable[id] <= 1
  /\ crawl.pc = "insert" => postsTable[crawl.post] = 0

\* C13, amended: a post whose existence lookup never failed during the crawl
\* is stored at most once; an insert is sent for a post that already has a
\* row only after a lookup that failed (or that found several rows, which
\* .single() reports as "not found"); and a lookup that found the row skipped
\* the post without sending an insert: the crawl counts one more skipped post
\* and no more inserted ones.
C13_InsertedAtMostOnceUnlessLookupFailed ==
  /\ [](\A id \in PostIds : id \notin crawlLog.faulted => postsTable[id] <= 1)
  /\ [](crawl.pc = "insert" =>
          \/ postsTable[crawl.post] = 0
          \/ crawl.lookup = "failed"
          \/ postsTable[crawl.post] > 1)
  /\ [][ (crawl.pc = "exists" /\ crawl'.lookup = "exists") =>
           /\ crawl'.pc # "insert"
           /\ postsTable' = postsTable
           /\ crawl'.total.skipped + crawl'.strat.skipped =
                crawl.total.skipped + crawl.strat.skipped + 1
           /\ crawl'.total.inserted + crawl'.strat.inserted =
                crawl.total.inserted + crawl.strat.inserted ]_vars

\* C13 witness: a post stored by this crawl under the first strategy came up
\* again under a later strategy, checkPostExists found its row and the post
\* was skipped; no lookup failed and the table holds one row for it.
C13_Witness ==
  /\ crawl.s > 1
  /\ crawl.lookup = "exists"
  /\ crawl.post = NoPost
  /\ crawl.total.inserted = 1
  /\ crawl.strat.skipped = 1
  /\ crawlLog.faulted = {}
  /\ postsTable["p2"] = 1

\* C14: checkPostExists (both copies) and checkAlreadyCommented return true
\* exactly when the lookup answered without error and with a row; "not
\* found" (PGRST116), any other query error and a thrown exception all give
\* false, and none of them makes the function throw.
C14_TrueIffLookupFindsRow ==
  item.pc = "returned" =>
    LET found == item.in.lookup.error = "none" /\ item.in.lookup.data IN
    /\ item.exists = found
    /\ item.existsC = found
    /\ item.commented = found
    /\ item.in.lookup.error # "none" =>
         ~item.exists /\ ~item.existsC /\ ~item.commented

\* C14 witness: the lookup failed with a query error other than PGRST116 and
\* the three functions returned false.
C14_Witness ==
  /\ item.pc = "returned"
  /\ item.in.lookup = LookupFailed
  /\ ~item.exists
  /\ ~item.existsC
  /\ ~item.commented

\* C15: for a post without url, both validateImage return isValid = false
\* with reason 'No URL found'; for a post with a url and is_video set, both
\* return isValid = false with reason 'Post is a video'; in both cases no
\* URL was probed, neither an album guess nor the availability of an image.
C15_NoUrlOrVideoRejectedWithoutProbe ==
  item.pc = "returned" =>
    LET p == item.in.post IN
    /\ p.url = NoUrl =>
         /\ ~item.validation.isValid
         /\ ~item.validationC.isValid
         /\ item.validation.reason = "No URL found"
         /\ item.validationC.reason = "No URL found"
         /\ item.validation.probed = <<>>
         /\ item.validationC.probed = <<>>
    /\ (p.url # NoUrl /\ p.is_video) =>
         /\ ~item.validation.isValid
         /\ ~item.validationC.isValid
         /\ item.validation.reason = "Post is a video"
         /\ item.validationC.reason = "Post is a video"
         /\ item.validation.probed = <<>>
         /\ item.validationC.probed = <<>>

\* C15 witness: a video whose url is an Imgur album with an image behind the
\* first guess, and whose probes would all answer with an image, was
\* rejected as a video with nothing probed.
C15_Witness ==
  /\ item.pc = "returned"
  /\ item.in.post.is_video
  /\ isImgurAlbumUrl(item.in.post.url)
  /\ albumMatch(item.in.post.url) # {}
  /\ item.in.albumAnswers = AllImages
  /\ item.in.availability = "image"
  /\ item.validation.reason = "Post is a video"
  /\ item.validation.probed = <<>>
  /\ item.validationC.probed = <<>>

\* C16 as stated: for a gallery post with media_metadata whose
\* gallery_data.items is not empty, extractFirstImageFromGallery returns the
\* decoded URL of the entry named by items[0] (null when that entry has no
\* URL), never the URL of another entry of media_metadata.
C16_FirstListedItemOnly ==
  (/\ item.pc = "returned"
   /\ item.in.post.is_gallery
   /\ item.in.post.has_media_metadata
   /\ Len(item.in.post.gallery_items) > 0) =>
    item.firstImage =
      decodeAmp(mediaUrl(item.in.post, item.in.post.gallery_items[1]))

\* C17 as stated: one failed probe never rejects the post: a post for which
\* an image URL was determined (the resolution of comprehensive-crawler.ts,
\* which stops there, accepts it) is accepted by validateImage of crawler.ts
\* too.
C17_FailedProbeNeverRejectsPost ==
  (item.pc = "returned" /\ item.validationC.isValid) => item.validation.isValid

\* C17, amended: a failed album guess rejects that guess only, the next one
\* is probed and the album is given up after the third (or at once, when its
\* url holds no album id); but validateImage of crawler.ts accepts a post
\* exactly when an image URL was determined and the availability probe of
\* that URL answered OK with an image content type: a failed or timed-out
\* availability probe rejects the post, with the reason 'Image URL returns
\* 404 or is unavailable'.
C17_AvailabilityProbeRejectsPost ==
  item.pc = "returned" =>
    LET in == item.in
        hits == { i \in 1..3 : in.albumAnswers[i] = "image" }
    IN
    /\ item.validation.isValid =
         (item.validationC.isValid /\ in.availability = "image")
    /\ (item.validationC.isValid /\ in.availability # "image") =>
         /\ item.validation.reason = "Image URL returns 404 or is unavailable"
         /\ item.validation.url = item.validationC.url
    /\ item.validation.isValid => item.validation.url = item.validationC.url
    /\ (item.validationC.reason = "Could not extract image from Imgur album") =>
         \/ albumMatch(in.post.url) = {} /\ item.validationC.probed = <<>>
         \/ hits = {} /\ Len(item.validationC.probed) = 3
    /\ (item.validationC.isValid /\ item.validationC.probed # <<>>) =>
         /\ hits # {}
         /\ \A i \in hits : Len(item.validationC.probed) <= i
         /\ item.validationC.url =
              item.validationC.probed[Len(item.validationC.probed)]

\* C17 witness: the probe of an album's first guess threw, the second guess
\* answered with an image and the post was accepted with the second URL.
C17_Witness ==
  /\ item.pc = "returned"
  /\ item.in.albumAnswers[1] = "throw"
  /\ item.in.albumAnswers[2] = "image"
  /\ item.validation.isValid
  /\ Len(item.validationC.probed) = 2
  /\ item.validation.url = item.validationC.probed[2]
  /\ ".png" \in Range(item.validation.url)

\* C18 as stated, for runIntelligentCommenter: when the OAuth token could not
\* be refreshed for a candidate's comment fetch (no request was sent for it),
\* the run is aborted: the error leaves runIntelligentCommenter.
C18_AuthErrorAbortsRun ==
  (cand.failed /\ ~cand.fetched) => pc = afterFetchFailure

\* C19 as stated, for comprehensiveCrawl: a listing fetch that failed is not
\* issued again in the run: the listing request the crawl is waiting on (one
\* sort, time filter and cursor) is never the request that failed last.
C19_FailedRequestNeverReissued ==
  crawl.pc = "listing" => inFlight(crawl) # crawlLog.lastFailed

\* C20: a call of RedditOAuthManager.getAccessToken returned the cached token
\* without a refresh request exactly when, at the call, a token was cached
\* whose expires_at was more than 60 seconds after the clock; in every other
\* case it sent exactly one refresh request and, when that was answered,
\* returned the newly granted token, which it cached (a refused refresh makes
\* the call throw and returns no token).  So a token returned from the cache
\* is never expired or within 60 seconds of its expiry.
C20_CachedIffMoreThanSixtySecondsLeft ==
  (oauth.pc = "idle" /\ oauth.outcome # "none") =>
    LET cached == oauth.cachedAtCall
        fresh == cached.set /\ cached.expires_at - oauth.callNow > 60
    IN
    /\ (oauth.outcome = "cached") = fresh
    /\ oauth.outcome = "cached" =>
         /\ oauth.refreshes = 0
         /\ oauth.returned = cached.access_token
         /\ cached.expires_at > oauth.callNow + 60
    /\ oauth.outcome # "cached" => oauth.refreshes = 1
    /\ oauth.outcome = "refreshed" =>
         /\ oauth.returned = oauth.currentToken.access_token
         /\ oauth.returned = oauth.minted
         /\ cached.set => oauth.returned # cached.access_token
    /\ oauth.outcome = "threw" => oauth.currentToken = cached

\* C20 witness: a call found a cached token with exactly 60 seconds left,
\* sent one refresh request and returned the new token.
C20_Witness ==
  /\ oauth.pc = "idle"
  /\ oauth.outcome = "refreshed"
  /\ oauth.cachedAtCall.set
  /\ oauth.cachedAtCall.expires_at = oauth.callNow + 60
  /\ oauth.refreshes = 1
  /\ oauth.returned # oauth.cachedAtCall.access_token

\* C21 as stated: the cached client-credentials token is replaced once it has
\* expired: a call of getAccessToken that returned the cached token was made
\* before that token's expiry.
C21_ExpiredTokenReplaced ==
  (client.pc = "idle" /\ client.outcome = "cached") =>
    client.cachedAtCall.expires_at > client.callNow

\* C22: RedditOAuthManager.postComment returned true exactly when the request
\* was answered with an OK status and a JSON object that carries no
\* json.errors list with elements and carries a json.data.things payload or
\* success === true; with no token, a thrown request, a non-OK status, an
\* error list (even beside a payload under HTTP 200), a body that is not a
\* JSON object or none of the success marks it returned false; every call
\* returned.
C22_PostedOnlyOnConfirmedSuccess ==
  reply.pc = "returned" =>
    LET r == reply.response
        answered == r.token /\ ~r.threw /\ r.ok /\ r.body = "object"
        errorList == r.hasJson /\ r.errors = "some"
        payload == r.hasJson /\ r.hasData /\ r.things # "absent"
    IN
    /\ reply.posted = (answered /\ ~errorList /\ (payload \/ r.success = "true"))
    /\ (~r.ok \/ errorList \/ r.threw \/ ~r.token) => ~reply.posted

\* C22 witness: HTTP 200 with a payload and a non-empty error list beside it:
\* postComment returned false.
C22_Witness ==
  /\ reply.pc = "returned"
  /\ reply.response.token
  /\ ~reply.response.threw
  /\ reply.response.ok
  /\ reply.response.body = "object"
  /\ reply.response.hasJson
  /\ reply.response.errors = "some"
  /\ reply.response.hasData
  /\ reply.response.things = "some"
  /\ ~reply.posted

\* C23: in a first run that ended with one candidate (a post that passed the
\* comment-count, age and media stages and has no CommentRecord), whose
\* comments were fetched with at least 3 usable ones, whose completion gave a
\* valid text and none of whose external calls failed: one generation call
\* and one postComment call were made; outside dry-run one submission was
\* confirmed and one CommentRecord insert was sent and stored, in dry-run
\* none was; and the result reports processed = 1 and commented = 1.
C23_OnePostOneCommentOneRecord ==
  (/\ runs = 0
   /\ pc = "done"
   /\ Len(candidates) = 1
   /\ io.failures = 0
   /\ cand.generated
   /\ cand.postCalled
   /\ dryRunMode \/ cand.submitOk) =>
    LET id == candidates[1].id
        real == IF dryRunMode THEN 0 ELSE 1
    IN
    /\ candidates[1].num_comments >= minCommentCount
    /\ ~candidates[1].is_video
    /\ isImageUrl(candidates[1].url)
    /\ trail = << id >>
    /\ cand.fetched
    /\ cand.validated
    /\ io.postCalls = 1
    /\ submitsOK = [p \in PostIds |-> IF p = id THEN real ELSE 0]
    /\ recordCalls = [p \in PostIds |-> IF p = id THEN real ELSE 0]
    /\ bot_comments = (IF dryRunMode THEN <<>> ELSE << id >>)
    /\ result.processed = 1
    /\ result.commented = 1
    /\ result.skipped = 0
    /\ result.errors = 0

\* C23 witness: such a run outside dry-run ended, with its one record stored.
C23_Witness ==
  /\ runs = 0
  /\ pc = "done"
  /\ ~dryRunMode
  /\ Len(candidates) = 1
  /\ io.failures = 0
  /\ cand.submitOk
  /\ cand.delayed
  /\ ".jpg" \in Range(candidates[1].url)
  /\ bot_comments = << candidates[1].id >>
  /\ result.processed = 1
  /\ result.commented = 1

\* The ids of a list of posts, in order.
idList(list) == [i \in 1..Len(list) |-> list[i].id]

\* C24 as stated: filterCandidatePosts returned the first maxCommentsPerRun
\* posts, in input order, of the posts that passed the comment-count, age and
\* media stages (the ones it looked up) and have no CommentRecord.
C24_FirstNotCommentedReturned ==
  (pc = "loop" /\ idx = 0) =>
    idList(candidates) =
      slice(SelectSeq(lookupLog.lookups, LAMBDA id : rows(id) = 0),
            maxCommentsPerRun)

\* C24, amended: the posts filterCandidatePosts looks up are the posts that
\* passed the comment-count, age and media stages, each looked up once, in
\* input order; a looked-up post is kept when it has no record, dropped when
\* it has one record and no lookup of it failed in this call, and kept all
\* the same when its lookup failed or reported PGRST116; the result is the
\* first maxCommentsPerRun kept posts, in input order.
C24_FirstKeptReturned ==
  /\ [](pc = "checkCommented" =>
          /\ k \in 1..Len(imagePosts)
          /\ lookupLog.lookups = idList(SubSeq(imagePosts, 1, k))
          /\ \A i \in 1..Len(imagePosts) :
               /\ imagePosts[i].num_comments >= minCommentCount
               /\ ~imagePosts[i].is_video
               /\ isImageUrl(imagePosts[i].url)
          /\ \E now \in Nows : \A i \in 1..Len(imagePosts) :
               now - imagePosts[i].created_utc <= maxPostAgeHours * 3600)
  /\ [][ pc = "checkCommented" =>
           LET looked == imagePosts[k]
               last == pc' # "checkCommented"
               fin(list) == IF last THEN slice(list, maxCommentsPerRun)
                            ELSE list
               out == IF last THEN candidates' ELSE notCommented'
           IN  /\ last = (k = Len(imagePosts))
               /\ out \in { fin(notCommented), fin(Append(notCommented, looked)) }
               /\ rows(looked.id) = 0 =>
                    out = fin(Append(notCommented, looked))
               /\ (rows(looked.id) = 1 /\ looked.id \notin lookupLog'.failed) =>
                    out = fin(notCommented)
               /\ ~last => imagePosts' = imagePosts /\ k' = k + 1 ]_vars

\* C24 witness: in a second run three posts passed the stages and were looked
\* up; the recorded one was dropped and the two others returned in order.
C24_Witness ==
  /\ runs = 1
  /\ pc = "loop"
  /\ idx = 0
  /\ Len(lookupLog.lookups) = 3
  /\ lookupLog.failed = {}
  /\ Len(bot_comments) = 1
  /\ lookupLog.lookups[1] = bot_comments[1]
  /\ idList(candidates) = SubSeq(lookupLog.lookups, 2, 3)

\* The comments of a fetched list that count as usable: a non-empty body that
\* is not '[deleted]' and is longer than 10 characters.
usableCount(raw) ==
  Cardinality({ i \in 1..Len(raw) :
                  /\ raw[i].length > 0
                  /\ raw[i].text # "[deleted]"
                  /\ raw[i].length > 10 })

\* C25: for every candidate the steps come in the order fetch comments, check
\* of the usable comments, generate, submit, record, each only after the
\* previous one succeeded: the completion is requested only for fetched
\* comments of which at least 3 are usable, postComment is called only with a
\* non-null validated text, the record insert is sent only after a confirmed
\* real submission; a candidate whose fetch answered with fewer than 3 usable
\* comments is skipped with no completion call and no submission.
C25_StepsInOrder ==
  /\ [](/\ cand.generated => cand.fetched
        /\ pc = "generate" => cand.generated /\ usableCount(cand.comments) >= 3
        /\ cand.validated => cand.generated
        /\ cand.postCalled => cand.validated
        /\ pc = "post" => cand.postCalled /\ commentText # null /\ ~dryRunMode
        /\ cand.submitSent => cand.postCalled /\ ~dryRunMode
        /\ cand.submitOk => cand.submitSent
        /\ cand.insertSent => cand.submitOk
        /\ pc = "record" => cand.insertSent
        /\ pc = "delay" => cand.postCalled /\ (dryRunMode \/ cand.insertSent))
  /\ [][ (pc = "fetchComments" /\ cand'.fetched /\ ~cand'.failed
             /\ usableCount(cand'.comments) < 3) =>
           /\ pc' = "loop"
           /\ ~cand'.generated
           /\ ~cand'.postCalled
           /\ ~cand'.submitSent
           /\ result'.skipped = result.skipped + 1
           /\ io' = io
           /\ submitsOK' = submitsOK ]_vars
  /\ [][ (pc = "fetchComments" /\ cand'.fetched /\ ~cand'.failed
             /\ usableCount(cand'.comments) >= 3) =>
           pc' = "generate" /\ cand'.generated ]_vars

\* C25 witness: the fetch answered with five comments of which two are
\* usable (one deleted, one of 10 characters, one empty) and the candidate
\* was skipped before any completion call.
C25_Witness ==
  /\ pc = "loop"
  /\ idx > 0
  /\ cand.fetched
  /\ ~cand.failed
  /\ Len(cand.comments) = 5
  /\ usableCount(cand.comments) = 2
  /\ ~cand.generated
  /\ ~cand.postCalled
  /\ result.skipped > 0

\* C26: extractImageFromImgurAlbum on a url with an album id probed
\* https://i.imgur.com/<id>.jpg, then .png, then .gif, in that order and each
\* at most once; it returned the first of them whose probe answered OK with
\* an image content type and probed nothing after it; a probe that answered
\* otherwise or threw sent it on to the next one; it returned null after
\* three failed probes, and null with no probe for a url without album id.
C26_AlbumGuessesInOrder ==
  item.pc = "returned" =>
    LET url == item.in.post.url
        answers == item.in.albumAnswers
        found == item.album.url
        probed == item.album.probed
        n == Len(probed)
        extension == << ".jpg", ".png", ".gif" >>
        marks == { i \in 1..(Len(url) - 1) :
                     /\ url[i] \in { "imgur.com/a/", "imgur.com/gallery/" }
                     /\ url[i + 1] \in { "abc", "xyz" } }
    IN
    /\ marks = {} => found = NoUrl /\ probed = <<>>
    /\ marks # {} =>
         /\ n \in 1..3
         /\ \E i \in marks :
              /\ \A j \in marks : i <= j
              /\ \A g \in 1..n :
                   probed[g] = << "https://", "i.imgur.com", "/", url[i + 1],
                                  extension[g] >>
         /\ \A g \in 1..(n - 1) : answers[g] # "image"
         /\ found # NoUrl => found = probed[n] /\ answers[n] = "image"
         /\ found = NoUrl => n = 3 /\ answers[3] # "image"

\* C26 witness: the .jpg probe answered with a non-OK status, the .png probe
\* with a page that is not an image, and the .gif url was returned.
C26_Witness ==
  /\ item.pc = "returned"
  /\ item.in.albumAnswers = << "notOk", "notImage", "image" >>
  /\ Len(item.album.probed) = 3
  /\ item.album.url = item.album.probed[3]
  /\ ".gif" \in Range(item.album.url)

\* C27: on every post and under every answer of the probes the two
\* validateImage give the same verdict, url and reason, but for the
\* availability probe: what crawler.ts accepts, comprehensive-crawler.ts
\* accepts with the same url; what comprehensive-crawler.ts rejects,
\* crawler.ts rejects with the same reason (and url); and when they differ,
\* comprehensive-crawler.ts accepted a url whose availability probe failed in
\* crawler.ts.
C27_VariantsAgreeButForAvailability ==
  item.pc = "returned" =>
    LET a == item.validation
        c == item.validationC
        differ == a.isValid # c.isValid \/ a.url # c.url \/ a.reason # c.reason
    IN
    /\ a.isValid => c.isValid /\ c.url = a.url
    /\ ~c.isValid => ~a.isValid /\ a.reason = c.reason /\ a.url = c.url
    /\ differ =>
         /\ c.isValid
         /\ ~a.isValid
         /\ item.in.availability # "image"
         /\ a.url = c.url
         /\ a.reason = "Image URL returns 404 or is unavailable"
    /\ (c.isValid /\ item.in.availability = "image") => ~differ

\* C27 witness: a gallery post was accepted by both with the same decoded
\* url of its first item.
C27_Witness ==
  /\ item.pc = "returned"
  /\ isGalleryUrl(item.in.post.url)
  /\ item.validation.isValid
  /\ item.validationC.isValid
  /\ item.validation.url = item.validationC.url
  /\ "&" \in Range(item.validation.url)

\* C28: every item of the two loops adds one to exactly one outcome counter.
\* Between two candidates and on return, runIntelligentCommenter has
\* processed = commented + skipped + errors, with processed the number of
\* candidates taken; between two posts and on return, crawlReddit has
\* processed = inserted + skipped + errors, with processed the number of posts
\* taken; and commented grows by one exactly when a candidate ends with
\* processPost returning true (postComment was called and no call of the
\* candidate failed), and never otherwise.
C28_OneOutcomeCounterPerItem ==
  /\ [](pc \in { "loop", "done" } =>
          /\ result.processed = Len(trail)
          /\ result.processed =
               result.commented + result.skipped + result.errors)
  /\ [](reddit.pc \in { "loop", "returned" } =>
          /\ reddit.result.processed = reddit.i
          /\ reddit.result.processed =
               reddit.result.inserted + reddit.result.skipped
                 + reddit.result.errors)
  /\ [][ pc' # "idle" =>
           LET ended == pc \notin { "loop", "idle" } /\ pc' = "loop"
               returnedTrue == ended /\ cand'.postCalled /\ ~cand'.failed
           IN  result'.commented =
                 result.commented + (IF returnedTrue THEN 1 ELSE 0) ]_vars

\* C28 witness: crawlReddit returned after two posts, one inserted and one
\* counted as an error.
C28_Witness ==
  /\ reddit.pc = "returned"
  /\ reddit.result.processed = 2
  /\ reddit.result.inserted = 1
  /\ reddit.result.errors = 1
  /\ reddit.result.skipped = 0

\* The ways a crawl ends.
CrawlEnded == crawl.pc \in { "returned", "thrown401", "thrownEmpty" }

\* Listing requests of a crawl answered so far.
RECURSIVE listingsUpTo(_)
listingsUpTo(s) ==
  IF s = 0 THEN 0 ELSE crawlLog.tape.listings[s] + listingsUpTo(s - 1)

\* The cursor returned by the latest page fetched in strategy s; null when
\* the strategy has fetched none.
latestCursor(s) ==
  IF crawlLog.tape.last.s = s THEN crawlLog.tape.last.after ELSE NoCursor

\* C29: every crawl ends.  A strategy gets at most `batches` listing
\* requests answered and the crawl at most 10; the strategies are taken in
\* the order of the list, none before the current one has ended and none
\* twice; whenever a strategy is about to fetch again or pauses, its latest
\* page was not empty and came with a cursor (an empty page or a null cursor
\* ended the strategy); the cursor sent with a listing request is the one
\* returned with the latest page of the strategy, and none before the
\* strategy fetched a page.
C29_CrawlTerminatesWithinItsBatches ==
  /\ <>CrawlEnded
  /\ [](\A s \in 1..Len(CRAWL_STRATEGIES) :
          /\ crawlLog.tape.listings[s] <= CRAWL_STRATEGIES[s].batches
          /\ s > crawl.s => crawlLog.tape.listings[s] = 0)
  /\ [](listingsUpTo(Len(CRAWL_STRATEGIES)) <= 10)
  /\ [](crawl.batch \in 1..CRAWL_STRATEGIES[crawl.s].batches)
  /\ [][ \/ crawl'.s = crawl.s
         \/ crawl'.s = crawl.s + 1 /\ crawl'.batch = 1 ]_vars
  /\ []((crawl.pc \in { "token", "listing", "pause" }
         /\ crawlLog.tape.last.s = crawl.s) =>
          /\ crawlLog.tape.last.len > 0
          /\ crawlLog.tape.last.after # NoCursor)
  /\ [](crawl.pc \in { "token", "listing" } =>
          /\ crawl.after = latestCursor(crawl.s)
          /\ (crawlLog.tape.last.s # crawl.s) => crawl.after = NoCursor)

\* C29 witness: a crawl ended after the second strategy used both of its
\* batches and the first one sent the cursor of its first page with its
\* second request.
C29_Witness ==
  /\ CrawlEnded
  /\ crawlLog.tape.listings[2] = 2
  /\ crawlLog.tape.listings[1] >= 2
  /\ crawlLog.tape.posts >= 1

\* C30: a crawl ends by throwing exactly when a call of fetchRedditPostsBatch
\* failed with a 401 error (it throws at once, out of the catch of the batch)
\* or when, after the last strategy, processed = 0 and errors > 0; otherwise
\* it returns totals in which processed is the number of posts of the pages
\* fetched and inserted + skipped + errors = processed + the number of failed
\* calls of fetchRedditPostsBatch.
C30_ThrowsOn401OrEmptyFailedCrawl ==
  LET tape == crawlLog.tape
      total == crawl.total
      emptyAndFailed == total.processed = 0 /\ total.errors > 0
  IN
  /\ tape.saw401 = (crawl.pc = "thrown401")
  /\ crawl.pc = "thrownEmpty" =>
       /\ emptyAndFailed
       /\ crawl.s = Len(CRAWL_STRATEGIES)
       /\ tape.posts = 0
       /\ total.errors = tape.failed
  /\ crawl.pc = "returned" =>
       /\ ~emptyAndFailed
       /\ crawl.s = Len(CRAWL_STRATEGIES)
       /\ total.processed = tape.posts
       /\ total.inserted + total.skipped + total.errors =
            total.processed + tape.failed

\* C30 witness: a crawl returned after a failed batch, with a post inserted,
\* a post skipped, and an error counted for the failed batch.
C30_Witness ==
  /\ crawl.pc = "returned"
  /\ crawlLog.tape.failed = 1
  /\ crawlLog.tape.posts = 2
  /\ crawl.total.processed = 2
  /\ crawl.total.inserted = 1
  /\ crawl.total.skipped = 1
  /\ crawl.total.errors = 1

============================================================================
